---- MODULE Spec2Model ----
(***************************************************************************)
(* EdgePilot policy selection service: the guardrail parser and scoring    *)
(* engine (edgepilot/app.py), the Job Store (edgepilot/job_store.py), the  *)
(* Policy Store (edgepilot/policy_store.py) and the request handlers that  *)
(* compose them.                                                           *)
(*                                                                         *)
(* Conventions of the model.                                               *)
(*  - Optional[X] is a sequence: None is <<>>, a value x is <<x>>.         *)
(*  - A guardrail expression and a metric name are Python strings on which *)
(*    the code does character work (replace, in, split, float).  They are  *)
(*    sequences of tokens: every operator character, blank and digit is a  *)
(*    token of its own; a run of identifier characters ("cpu_pct") is one  *)
(*    token.  Identifiers of the model never hold an operator character.   *)
(*  - A float is a record [fin, val]: val is an integer when fin is TRUE,  *)
(*    and NaN / Inf are the two non-finite values.  Thresholds written in  *)
(*    a guardrail are unsigned decimal integers.                           *)
(*  - Scores are counted in quarters of a point (1.0 is 4), so that every  *)
(*    weight of the scoring rule is an integer.                            *)
(*  - A Python dict that is enumerated (the stores) is a sequence of       *)
(*    records with pairwise distinct keys, in insertion order.             *)
(*  - One request handler is one action: the service runs its handlers on  *)
(*    one event loop and no handler modelled here awaits between its store *)
(*    calls.  The stores themselves are written for several threads: the   *)
(*    last sections run their methods statement by statement.              *)
(***************************************************************************)
EXTENDS Integers, Sequences, FiniteSets, TLC

VARIABLES
  policies,     \* PolicyStore._policies, in dict order
  policy_file,  \* the persisted {"policies": [...]} document
  jobs,         \* JobStore._jobs, in dict order
  job_file,     \* the persisted {"jobs": [...]} document
  now,          \* the wall clock read by _utc_now()
  request,      \* the request (or call) handled last
  response,     \* what it returned
  written,      \* history: job_id -> the JobRun handed to the last record() of that id
  threads,      \* the calls in flight: per thread, where it is in its call and its locals
  locks,        \* PolicyStore._lock and JobStore._lock: the holder, 0 when free
  tmp_files,    \* the files at <path>.tmp
  JOB_STATE     \* the mock scheduler's JOB_STATE, in dict order

vars == <<policies, policy_file, jobs, job_file, now, request, response, written,
          threads, locks, tmp_files, JOB_STATE>>

\* one request at a time: no call in flight, both locks free, no temporary file
NoThreads ==
  /\ threads = <<>>
  /\ locks = [policy |-> 0, job |-> 0]
  /\ tmp_files = [policy |-> <<>>, job |-> <<>>]

ThreadsUnchanged == UNCHANGED <<threads, locks, tmp_files, JOB_STATE>>

-----------------------------------------------------------------------------
(* Values *)

None == <<>>
Some(x) == <<x>>

\* a float holds its value in thousandths, so that round(x, 2) has something to
\* round; Float(v) is the whole number v
Thousandths(v) == v * 1000
Float(v) == [fin |-> TRUE, val |-> Thousandths(v)]
Exact(thousandths) == [fin |-> TRUE, val |-> thousandths]
NaN == [fin |-> FALSE, val |-> 0]
Inf == [fin |-> FALSE, val |-> 1]
isfinite(x) == x.fin

Range(s) == {s[i] : i \in DOMAIN s}

Min(a, b) == IF a <= b THEN a ELSE b

\* dict.get(key): None when the key is absent
DictGet(d, k) == IF k \in DOMAIN d THEN Some(d[k]) ELSE None

\* dict.get(key, default)
DictGetDefault(d, k, default) == IF k \in DOMAIN d THEN d[k] ELSE default

-----------------------------------------------------------------------------
(* Strings of tokens *)

Digits == {"0", "1", "2", "3", "4", "5", "6", "7", "8", "9"}

DigitValue(c) ==
  CASE c = "0" -> 0 [] c = "1" -> 1 [] c = "2" -> 2 [] c = "3" -> 3 [] c = "4" -> 4
    [] c = "5" -> 5 [] c = "6" -> 6 [] c = "7" -> 7 [] c = "8" -> 8 [] c = "9" -> 9

\* str.replace(" ", "")
RemoveSpaces(s) == SelectSeq(s, LAMBDA c : c # " ")

\* the positions at which `sub` occurs in `s`
Occurrences(s, sub) ==
  {i \in 1..(Len(s) - Len(sub) + 1) : SubSeq(s, i, i + Len(sub) - 1) = sub}

\* sub in s
Contains(s, sub) == Occurrences(s, sub) # {}

\* s.split(sub, 1) for a string that holds sub: the text before and after its
\* first occurrence
Split1(s, sub) ==
  LET i == CHOOSE k \in Occurrences(s, sub) : \A j \in Occurrences(s, sub) : k <= j
  IN  <<SubSeq(s, 1, i - 1), SubSeq(s, i + Len(sub), Len(s))>>

RECURSIVE DecimalValue(_)
DecimalValue(s) ==
  IF s = <<>> THEN 0
  ELSE 10 * DecimalValue(SubSeq(s, 1, Len(s) - 1)) + DigitValue(s[Len(s)])

\* float(value) on the literals of the model: a non-empty run of digits parses,
\* anything else raises ValueError (None here)
ParseFloat(s) ==
  IF s # <<>> /\ \A i \in DOMAIN s : s[i] \in Digits
  THEN Some(DecimalValue(s))
  ELSE None

-----------------------------------------------------------------------------
(* Guardrails: edgepilot/app.py *)

\* metric names
CPU == <<"cpu_pct">>
MEM == <<"mem_used_pct">>
DISK == <<"disk_pct">>
CPU_UTIL == <<"cpu_utilization_pct">>
LOAD == <<"avg_load1">>
DISK_USED == <<"disk_used_pct">>

LE == <<"<", "=">>
GE == <<">", "=">>
LT == <<"<">>
GT == <<">">>

\* the tuple the parser walks, in its order
OPERATORS == <<LE, GE, LT, GT>>

RECURSIVE ParseWith(_, _)
ParseWith(cleaned, k) ==
  IF k > Len(OPERATORS) THEN None
  ELSE IF Contains(cleaned, OPERATORS[k])
       THEN LET parts == Split1(cleaned, OPERATORS[k])
                threshold == ParseFloat(parts[2])
            IN  IF threshold = None THEN None
                ELSE Some([metric |-> parts[1], operator |-> OPERATORS[k],
                           threshold |-> threshold[1]])
       ELSE ParseWith(cleaned, k + 1)

_parse_guardrail(guardrail) == ParseWith(RemoveSpaces(guardrail), 1)

\* mutant: <= treated as a strict bound
_guardrail_failed_strict(actual, operator, threshold) ==
  IF ~isfinite(actual) THEN TRUE
  ELSE IF operator = LE THEN actual.val >= Thousandths(threshold)
  ELSE IF operator = GE THEN actual.val < Thousandths(threshold)
  ELSE IF operator = LT THEN actual.val >= Thousandths(threshold)
  ELSE IF operator = GT THEN actual.val <= Thousandths(threshold)
  ELSE TRUE

_guardrail_failed(actual, operator, threshold) ==
  IF ~isfinite(actual) THEN TRUE
  ELSE IF operator = LE THEN actual.val > Thousandths(threshold)
  ELSE IF operator = GE THEN actual.val < Thousandths(threshold)
  ELSE IF operator = LT THEN actual.val >= Thousandths(threshold)
  ELSE IF operator = GT THEN actual.val <= Thousandths(threshold)
  ELSE TRUE

REASON_PARSE == "Could not parse guardrail expression."
REASON_MISSING == "Metric not supplied by verifier."
REASON_BREACH == "Metric breached guardrail."

\* mutant: the written threshold is used although an override is given
EvaluateOne_no_override(guardrail, metrics, overrides) ==
  LET parsed == _parse_guardrail(guardrail)
  IN  IF parsed = None
      THEN <<[guardrail |-> guardrail, reason |-> REASON_PARSE]>>
      ELSE LET metric == parsed[1].metric
               operator == parsed[1].operator
               threshold == parsed[1].threshold
               actual == DictGet(metrics, metric)
           IN  IF actual = None
               THEN <<[guardrail |-> guardrail, metric |-> metric,
                       threshold |-> threshold, reason |-> REASON_MISSING]>>
               ELSE IF _guardrail_failed(actual[1], operator, threshold)
                    THEN <<[guardrail |-> guardrail, metric |-> metric,
                            threshold |-> threshold, actual |-> actual[1],
                            operator |-> operator, reason |-> REASON_BREACH]>>
                    ELSE <<>>

\* one turn of the loop of evaluate_guardrails: the violations it appends
EvaluateOne(guardrail, metrics, overrides) ==
  LET parsed == _parse_guardrail(guardrail)
  IN  IF parsed = None
      THEN <<[guardrail |-> guardrail, reason |-> REASON_PARSE]>>
      ELSE LET metric == parsed[1].metric
               operator == parsed[1].operator
               threshold == DictGetDefault(overrides, metric, parsed[1].threshold)
               actual == DictGet(metrics, metric)
           IN  IF actual = None
               THEN <<[guardrail |-> guardrail, metric |-> metric,
                       threshold |-> threshold, reason |-> REASON_MISSING]>>
               ELSE IF _guardrail_failed(actual[1], operator, threshold)
                    THEN <<[guardrail |-> guardrail, metric |-> metric,
                            threshold |-> threshold, actual |-> actual[1],
                            operator |-> operator, reason |-> REASON_BREACH]>>
                    ELSE <<>>

RECURSIVE EvaluateFrom(_, _, _, _)
EvaluateFrom(guardrails, metrics, overrides, i) ==
  IF i > Len(guardrails) THEN <<>>
  ELSE EvaluateOne(guardrails[i], metrics, overrides)
         \o EvaluateFrom(guardrails, metrics, overrides, i + 1)

evaluate_guardrails(record, metrics, overrides) ==
  EvaluateFrom(record.guardrails, metrics, overrides, 1)

\* mutant: a guardrail whose metric is absent from the map is penalised
PenaltyOne_missing_counts(guardrail, metrics) ==
  LET parsed == _parse_guardrail(guardrail)
  IN  IF parsed = None THEN <<>>
      ELSE LET actual == DictGet(metrics, parsed[1].metric)
           IN  IF actual = None
               THEN <<[guardrail |-> guardrail, metric |-> parsed[1].metric,
                       operator |-> parsed[1].operator,
                       threshold |-> parsed[1].threshold, actual |-> NaN]>>
               ELSE IF _guardrail_failed(actual[1], parsed[1].operator, parsed[1].threshold)
                    THEN <<[guardrail |-> guardrail, metric |-> parsed[1].metric,
                            operator |-> parsed[1].operator,
                            threshold |-> parsed[1].threshold, actual |-> actual[1]]>>
                    ELSE <<>>

\* one turn of the loop of guardrail_penalties_for_metrics
PenaltyOne(guardrail, metrics) ==
  LET parsed == _parse_guardrail(guardrail)
  IN  IF parsed = None THEN <<>>
      ELSE LET actual == DictGet(metrics, parsed[1].metric)
           IN  IF actual = None THEN <<>>
               ELSE IF _guardrail_failed(actual[1], parsed[1].operator, parsed[1].threshold)
                    THEN <<[guardrail |-> guardrail, metric |-> parsed[1].metric,
                            operator |-> parsed[1].operator,
                            threshold |-> parsed[1].threshold, actual |-> actual[1]]>>
                    ELSE <<>>

RECURSIVE PenaltiesFrom(_, _, _)
PenaltiesFrom(guardrails, metrics, i) ==
  IF i > Len(guardrails) THEN <<>>
  ELSE PenaltyOne(guardrails[i], metrics) \o PenaltiesFrom(guardrails, metrics, i + 1)

\* returns (count, penalties); count is bumped with every append
guardrail_penalties_for_metrics(record, metrics) ==
  LET penalties == PenaltiesFrom(record.guardrails, metrics, 1)
  IN  [count |-> Len(penalties), penalties |-> penalties]

-----------------------------------------------------------------------------
(* Scoring: edgepilot/app.py.  Quarter points. *)

BASE_SCORE == 4
OVERLAP_WEIGHT == 8
HISTORY_WEIGHT == 1
HISTORY_CAP == 5
VERIFIED_BONUS == 2
PENALTY_WEIGHT == 6

\* mutant: the history bonus is not capped
score_policy_for_batch_uncapped(record, workload_tags, metrics) ==
  LET overlap == Cardinality(workload_tags \cap Range(record.target_workloads))
      history_bonus == Len(record.history) * HISTORY_WEIGHT
      base_score == BASE_SCORE + overlap * OVERLAP_WEIGHT + history_bonus
                      + (IF record.last_verified_at # None THEN VERIFIED_BONUS ELSE 0)
      pen == guardrail_penalties_for_metrics(record, metrics)
  IN  [policy |-> record,
       score |-> base_score - pen.count * PENALTY_WEIGHT,
       overlap |-> overlap,
       history_bonus |-> history_bonus,
       guardrail_penalties |-> pen.penalties]

\* mutant: the penalties are added to the score
score_policy_for_batch_penalty_added(record, workload_tags, metrics) ==
  LET overlap == Cardinality(workload_tags \cap Range(record.target_workloads))
      history_bonus == Min(Len(record.history), HISTORY_CAP) * HISTORY_WEIGHT
      base_score == BASE_SCORE + overlap * OVERLAP_WEIGHT + history_bonus
                      + (IF record.last_verified_at # None THEN VERIFIED_BONUS ELSE 0)
      pen == guardrail_penalties_for_metrics(record, metrics)
  IN  [policy |-> record,
       score |-> base_score + pen.count * PENALTY_WEIGHT,
       overlap |-> overlap,
       history_bonus |-> history_bonus,
       guardrail_penalties |-> pen.penalties]

score_policy_for_batch(record, workload_tags, metrics) ==
  LET overlap == Cardinality(workload_tags \cap Range(record.target_workloads))
      history_bonus == Min(Len(record.history), HISTORY_CAP) * HISTORY_WEIGHT
      base_score == BASE_SCORE + overlap * OVERLAP_WEIGHT + history_bonus
                      + (IF record.last_verified_at # None THEN VERIFIED_BONUS ELSE 0)
      pen == guardrail_penalties_for_metrics(record, metrics)
  IN  [policy |-> record,
       score |-> base_score - pen.count * PENALTY_WEIGHT,
       overlap |-> overlap,
       history_bonus |-> history_bonus,
       guardrail_penalties |-> pen.penalties]

-----------------------------------------------------------------------------
(* Records *)

\* the empty dict
EmptyDict == <<>>

\* PolicyRun(timestamp, workload_label, kpis, notes)
PolicyRun(timestamp, workload_label, kpis, notes) ==
  [timestamp |-> timestamp, workload_label |-> workload_label,
   kpis |-> kpis, notes |-> notes]

\* the PolicyRecord dataclass; created_at and updated_at default to _utc_now().
\* description and intent are free text that create() sets and no code reads.
PolicyRecord(id, name, target_workloads, guardrails, embedding, kpis, notes, t) ==
  [id |-> id, name |-> name, description |-> "", intent |-> "",
   target_workloads |-> target_workloads,
   guardrails |-> guardrails, embedding |-> embedding, kpis |-> kpis,
   notes |-> notes, created_at |-> t, updated_at |-> t,
   last_verified_at |-> None, last_activation_token |-> None, history |-> <<>>]

\* the JobRun dataclass
JobRun(job_id, workload, policy_id, status, submitted_at, started_at, finished_at, metrics, tags, notes) ==
  [job_id |-> job_id, workload |-> workload, policy_id |-> policy_id,
   status |-> status, submitted_at |-> submitted_at, started_at |-> started_at,
   finished_at |-> finished_at, metrics |-> metrics, tags |-> tags, notes |-> notes]

-----------------------------------------------------------------------------
(* The JSON documents.  A timestamp is written as its ISO-8601 string and read
   back with fromisoformat; null is None; a key a document lacks is absent from
   the record that models it. *)

isoformat(t) == <<"iso", t>>
fromisoformat(text) == text[2]

\* PolicyRun.to_dict
PolicyRun_to_dict(run) ==
  [timestamp |-> isoformat(run.timestamp), workload_label |-> run.workload_label,
   kpis |-> run.kpis, notes |-> run.notes]

\* PolicyRun.from_dict
PolicyRun_from_dict(data) ==
  PolicyRun(fromisoformat(data.timestamp), DictGetDefault(data, "workload_label", None),
            DictGetDefault(data, "kpis", EmptyDict), DictGetDefault(data, "notes", None))

\* mutant: last_verified_at is not written
PolicyRecord_to_dict_unverified(record) ==
  [id |-> record.id, name |-> record.name, description |-> record.description,
   intent |-> record.intent, target_workloads |-> record.target_workloads,
   guardrails |-> record.guardrails, embedding |-> record.embedding,
   kpis |-> record.kpis, notes |-> record.notes,
   created_at |-> isoformat(record.created_at),
   updated_at |-> isoformat(record.updated_at),
   last_activation_token |-> record.last_activation_token,
   history |-> [i \in DOMAIN record.history |-> PolicyRun_to_dict(record.history[i])]]

\* PolicyRecord.to_dict
PolicyRecord_to_dict(record) ==
  [id |-> record.id, name |-> record.name, description |-> record.description,
   intent |-> record.intent, target_workloads |-> record.target_workloads,
   guardrails |-> record.guardrails, embedding |-> record.embedding,
   kpis |-> record.kpis, notes |-> record.notes,
   created_at |-> isoformat(record.created_at),
   updated_at |-> isoformat(record.updated_at),
   last_verified_at |-> IF record.last_verified_at # None
                        THEN Some(isoformat(record.last_verified_at[1])) ELSE None,
   last_activation_token |-> record.last_activation_token,
   history |-> [i \in DOMAIN record.history |-> PolicyRun_to_dict(record.history[i])]]

\* mutant: the kpis of an entry are not read
PolicyRecord_from_dict_no_kpis(data, t) ==
  [id |-> data.id,
   name |-> DictGetDefault(data, "name", ""),
   description |-> DictGetDefault(data, "description", ""),
   intent |-> DictGetDefault(data, "intent", ""),
   target_workloads |-> DictGetDefault(data, "target_workloads", <<>>),
   guardrails |-> DictGetDefault(data, "guardrails", <<>>),
   embedding |-> DictGetDefault(data, "embedding", <<>>),
   kpis |-> EmptyDict,
   notes |-> DictGetDefault(data, "notes", <<>>),
   created_at |-> IF "created_at" \in DOMAIN data THEN fromisoformat(data.created_at) ELSE t,
   updated_at |-> IF "updated_at" \in DOMAIN data THEN fromisoformat(data.updated_at) ELSE t,
   last_verified_at |-> IF DictGetDefault(data, "last_verified_at", None) # None
                        THEN Some(fromisoformat(data.last_verified_at[1])) ELSE None,
   last_activation_token |-> DictGetDefault(data, "last_activation_token", None),
   history |-> LET items == DictGetDefault(data, "history", <<>>)
               IN  [i \in DOMAIN items |-> PolicyRun_from_dict(items[i])]]

\* PolicyRecord.from_dict at the instant t: the keys the entry lacks take their
\* defaults, the timestamps the clock
PolicyRecord_from_dict(data, t) ==
  [id |-> data.id,
   name |-> DictGetDefault(data, "name", ""),
   description |-> DictGetDefault(data, "description", ""),
   intent |-> DictGetDefault(data, "intent", ""),
   target_workloads |-> DictGetDefault(data, "target_workloads", <<>>),
   guardrails |-> DictGetDefault(data, "guardrails", <<>>),
   embedding |-> DictGetDefault(data, "embedding", <<>>),
   kpis |-> DictGetDefault(data, "kpis", EmptyDict),
   notes |-> DictGetDefault(data, "notes", <<>>),
   created_at |-> IF "created_at" \in DOMAIN data THEN fromisoformat(data.created_at) ELSE t,
   updated_at |-> IF "updated_at" \in DOMAIN data THEN fromisoformat(data.updated_at) ELSE t,
   last_verified_at |-> IF DictGetDefault(data, "last_verified_at", None) # None
                        THEN Some(fromisoformat(data.last_verified_at[1])) ELSE None,
   last_activation_token |-> DictGetDefault(data, "last_activation_token", None),
   history |-> LET items == DictGetDefault(data, "history", <<>>)
               IN  [i \in DOMAIN items |-> PolicyRun_from_dict(items[i])]]

\* JobRun.to_dict
JobRun_to_dict(job) ==
  [job_id |-> job.job_id, workload |-> job.workload, policy_id |-> job.policy_id,
   status |-> job.status, submitted_at |-> isoformat(job.submitted_at),
   started_at |-> IF job.started_at # None THEN Some(isoformat(job.started_at[1])) ELSE None,
   finished_at |-> IF job.finished_at # None THEN Some(isoformat(job.finished_at[1])) ELSE None,
   metrics |-> job.metrics, tags |-> job.tags, notes |-> job.notes]

\* _parse_timestamp of an optional ISO string
_parse_timestamp(value) ==
  IF value = None THEN None ELSE Some(fromisoformat(value[1]))

\* JobRun.from_dict at the instant t
JobRun_from_dict(data, t) ==
  JobRun(data.job_id,
         DictGetDefault(data, "workload", ""),
         DictGetDefault(data, "policy_id", None),
         DictGetDefault(data, "status", "unknown"),
         IF "submitted_at" \in DOMAIN data THEN fromisoformat(data.submitted_at) ELSE t,
         _parse_timestamp(DictGetDefault(data, "started_at", None)),
         _parse_timestamp(DictGetDefault(data, "finished_at", None)),
         DictGetDefault(data, "metrics", EmptyDict),
         DictGetDefault(data, "tags", <<>>),
         DictGetDefault(data, "notes", None))

NoRequest == [op |-> "none"]
NoResponse == [status |-> "none"]

-----------------------------------------------------------------------------
(* Job Store: edgepilot/job_store.py.  The operators take and give the dict
   self._jobs; the actions below write the persisted document with them. *)

\* the position of key in a dict of job runs, 0 when absent
JobIndex(store, job_id) ==
  IF \E i \in DOMAIN store : store[i].job_id = job_id
  THEN CHOOSE i \in DOMAIN store : store[i].job_id = job_id
  ELSE 0

\* the document {"jobs": [job.to_dict() for job in self._jobs.values()]} that
\* _save leaves at the canonical path
JobStore_save(store) == [i \in DOMAIN store |-> JobRun_to_dict(store[i])]

\* mutant: the job is appended although its id is already a key
JobStore_record_append(store, job) == Append(store, job)

\* self._jobs[job.job_id] = job: in place for a known key, at the end for a new one
JobStore_record(store, job) ==
  IF JobIndex(store, job.job_id) # 0
  THEN [store EXCEPT ![JobIndex(store, job.job_id)] = job]
  ELSE Append(store, job)

\* metrics or {} and tags or [] leave the values of the model as they are
JobStore_upsert(store, job_id, workload, policy_id, status, submitted_at, started_at, finished_at, metrics, tags, notes) ==
  JobStore_record(store, JobRun(job_id, workload, policy_id, status, submitted_at,
                                started_at, finished_at, metrics, tags, notes))

\* _load: the jobs of the document by job_id
RECURSIVE JobStore_load_from(_, _, _, _)
JobStore_load_from(store, document, t, i) ==
  IF i > Len(document) THEN store
  ELSE JobStore_load_from(JobStore_record(store, JobRun_from_dict(document[i], t)),
                          document, t, i + 1)

JobStore_load(document, t) == JobStore_load_from(<<>>, document, t, 1)

JobStore_get(store, job_id) ==
  IF JobIndex(store, job_id) # 0 THEN Some(store[JobIndex(store, job_id)]) ELSE None

JobStore_list(store) == store

\* mutant: finished_at is not looked at
_sort_key_no_finish(job) ==
  IF job.started_at # None THEN job.started_at[1] ELSE job.submitted_at

\* job.finished_at or job.started_at or job.submitted_at
_sort_key(job) ==
  IF job.finished_at # None THEN job.finished_at[1]
  ELSE IF job.started_at # None THEN job.started_at[1]
  ELSE job.submitted_at

\* sorted(..., key=key, reverse=True) is stable: an element goes behind every
\* element whose key is not smaller.  keys[i] is the key of s[i].
InsertDescending(sorted, x) ==
  LET before == SelectSeq(sorted, LAMBDA y : y.key >= x.key)
      after == SelectSeq(sorted, LAMBDA y : y.key < x.key)
  IN  before \o <<x>> \o after

RECURSIVE KeyedDescending(_, _, _)
KeyedDescending(s, keys, n) ==
  IF n = 0 THEN <<>>
  ELSE InsertDescending(KeyedDescending(s, keys, n - 1), [key |-> keys[n], item |-> s[n]])

SortedDescending(s, keys) ==
  LET keyed == KeyedDescending(s, keys, Len(s))
  IN  [i \in DOMAIN keyed |-> keyed[i].item]

\* s[:limit], a negative limit counting from the end
SliceTo(s, limit) ==
  IF limit >= 0 THEN SubSeq(s, 1, Min(limit, Len(s)))
  ELSE SubSeq(s, 1, Len(s) + limit)

JobStore_recent(store, limit) ==
  SliceTo(SortedDescending(store, [i \in DOMAIN store |-> _sort_key(store[i])]), limit)

\* a dict of counts, in insertion order: counts[key] = counts.get(key, 0) + 1
CountOne(counts, key) ==
  IF \E i \in DOMAIN counts : counts[i].key = key
  THEN [i \in DOMAIN counts |->
          IF counts[i].key = key THEN [counts[i] EXCEPT !.count = @ + 1] ELSE counts[i]]
  ELSE Append(counts, [key |-> key, count |-> 1])

RECURSIVE CountFrom(_, _, _)
CountFrom(counts, keys, i) ==
  IF i > Len(keys) THEN counts
  ELSE CountFrom(CountOne(counts, keys[i]), keys, i + 1)

\* mutant: a status is noted, not counted
JobStore_status_counts_flags(store) ==
  LET counts == CountFrom(<<>>, [i \in DOMAIN store |-> store[i].status], 1)
  IN  [i \in DOMAIN counts |-> [counts[i] EXCEPT !.count = 1]]

JobStore_status_counts(store) ==
  CountFrom(<<>>, [i \in DOMAIN store |-> store[i].status], 1)

\* mutant: a record without policy_id is counted under the empty id
JobStore_policy_usage_all(store) ==
  CountFrom(<<>>, [i \in DOMAIN store |->
                     IF store[i].policy_id = None THEN "" ELSE store[i].policy_id[1]], 1)

\* if job.policy_id: neither None nor the empty string is counted
JobStore_policy_usage(store) ==
  LET used == SelectSeq(store, LAMBDA job : job.policy_id # None /\ job.policy_id[1] # "")
  IN  CountFrom(<<>>, [i \in DOMAIN used |-> used[i].policy_id[1]], 1)

-----------------------------------------------------------------------------
(* Policy Store: edgepilot/policy_store.py.  A method that raises KeyError gives
   [raised |-> TRUE] and leaves the dict alone; t is what _utc_now() returns. *)

PolicyIndex(store, policy_id) ==
  IF \E i \in DOMAIN store : store[i].id = policy_id
  THEN CHOOSE i \in DOMAIN store : store[i].id = policy_id
  ELSE 0

\* the document {"policies": [record.to_dict() ...]} that _save leaves at the
\* canonical path
PolicyStore_save(store) == [i \in DOMAIN store |-> PolicyRecord_to_dict(store[i])]

\* _load: the records of the document by id, a later entry of an id taking the
\* place of an earlier one
RECURSIVE PolicyStore_load_from(_, _, _, _)
PolicyStore_load_from(store, document, t, i) ==
  IF i > Len(document) THEN store
  ELSE LET record == PolicyRecord_from_dict(document[i], t)
           at == PolicyIndex(store, record.id)
       IN  PolicyStore_load_from(
             IF at # 0 THEN [store EXCEPT ![at] = record] ELSE Append(store, record),
             document, t, i + 1)

\* an absent file and a document without records load alike
PolicyStore_load(document, t) == PolicyStore_load_from(<<>>, document, t, 1)

PolicyStore_list(store) == store

PolicyStore_get(store, policy_id) ==
  IF PolicyIndex(store, policy_id) # 0 THEN Some(store[PolicyIndex(store, policy_id)])
  ELSE None

\* record.updated_at = _utc_now(); self._policies[record.id] = record
PolicyStore_upsert(store, record, t) ==
  LET stamped == [record EXCEPT !.updated_at = t]
  IN  IF PolicyIndex(store, record.id) # 0
      THEN [store EXCEPT ![PolicyIndex(store, record.id)] = stamped]
      ELSE Append(store, stamped)

\* create(): a fresh record under policy_id, handed to upsert; a list or dict
\* that is None becomes the empty one
PolicyStore_create(store, policy_id, name, description, intent, target_workloads, guardrails, embedding, kpis, notes, t) ==
  PolicyStore_upsert(store,
    [PolicyRecord(policy_id, name, target_workloads, guardrails,
                  IF embedding # None THEN embedding[1] ELSE <<>>, kpis, notes, t)
       EXCEPT !.description = description, !.intent = intent],
    t)

\* mutant: the kpis of the run replace the kpis of the record
PolicyStore_add_run_replace_kpis(store, policy_id, workload_label, kpis, notes, t) ==
  LET i == PolicyIndex(store, policy_id)
  IN  IF i = 0 THEN [raised |-> TRUE, store |-> store]
      ELSE [raised |-> FALSE,
            store |-> [store EXCEPT ![i] =
              [@ EXCEPT !.history = Append(@, PolicyRun(t, workload_label, kpis, notes)),
                        !.kpis = kpis,
                        !.updated_at = t]]]

\* mutant: the run is appended and updated_at is left as it was
PolicyStore_add_run_stale(store, policy_id, workload_label, kpis, notes, t) ==
  LET i == PolicyIndex(store, policy_id)
  IN  IF i = 0 THEN [raised |-> TRUE, store |-> store]
      ELSE [raised |-> FALSE,
            store |-> [store EXCEPT ![i] =
              [@ EXCEPT !.history = Append(@, PolicyRun(t, workload_label, kpis, notes)),
                        !.kpis = [k \in DOMAIN @ \cup DOMAIN kpis |->
                                    IF k \in DOMAIN kpis THEN kpis[k] ELSE @[k]]]]]

PolicyStore_add_run(store, policy_id, workload_label, kpis, notes, t) ==
  LET i == PolicyIndex(store, policy_id)
  IN  IF i = 0 THEN [raised |-> TRUE, store |-> store]
      ELSE [raised |-> FALSE,
            store |-> [store EXCEPT ![i] =
              [@ EXCEPT !.history = Append(@, PolicyRun(t, workload_label, kpis, notes)),
                        !.kpis = [k \in DOMAIN @ \cup DOMAIN kpis |->
                                    IF k \in DOMAIN kpis THEN kpis[k] ELSE @[k]],
                        !.updated_at = t]]]

\* mutant: an empty list counts as not supplied
PolicyStore_update_metadata_truthy(store, policy_id, guardrails, embedding, notes, t) ==
  LET i == PolicyIndex(store, policy_id)
  IN  IF i = 0 THEN [raised |-> TRUE, store |-> store]
      ELSE [raised |-> FALSE,
            store |-> [store EXCEPT ![i] =
              [@ EXCEPT !.guardrails = IF guardrails # None /\ guardrails[1] # <<>>
                                       THEN guardrails[1] ELSE @,
                        !.embedding = IF embedding # None /\ embedding[1] # <<>>
                                      THEN embedding[1] ELSE @,
                        !.notes = IF notes # None /\ notes[1] # <<>> THEN notes[1] ELSE @,
                        !.updated_at = t]]]

\* guardrails, embedding and notes are Optional: None leaves the field alone
PolicyStore_update_metadata(store, policy_id, guardrails, embedding, notes, t) ==
  LET i == PolicyIndex(store, policy_id)
  IN  IF i = 0 THEN [raised |-> TRUE, store |-> store]
      ELSE [raised |-> FALSE,
            store |-> [store EXCEPT ![i] =
              [@ EXCEPT !.guardrails = IF guardrails # None THEN guardrails[1] ELSE @,
                        !.embedding = IF embedding # None THEN embedding[1] ELSE @,
                        !.notes = IF notes # None THEN notes[1] ELSE @,
                        !.updated_at = t]]]

\* mutant: the stamp is left as it was
PolicyStore_register_verification_unstamped(store, policy_id, token, t) ==
  LET i == PolicyIndex(store, policy_id)
  IN  IF i = 0 THEN [raised |-> TRUE, store |-> store]
      ELSE [raised |-> FALSE,
            store |-> [store EXCEPT ![i] =
              [@ EXCEPT !.last_activation_token = Some(token), !.updated_at = t]]]

PolicyStore_register_verification(store, policy_id, token, t) ==
  LET i == PolicyIndex(store, policy_id)
  IN  IF i = 0 THEN [raised |-> TRUE, store |-> store]
      ELSE [raised |-> FALSE,
            store |-> [store EXCEPT ![i] =
              [@ EXCEPT !.last_verified_at = Some(t),
                        !.last_activation_token = Some(token),
                        !.updated_at = t]]]

\* PolicyStore.search.  A string is held whole when it is one word or empty and
\* as the sequence of its words and blanks otherwise; Text gives the sequence.
Text(s) ==
  CASE s = "" -> <<>>
    [] s = "made to order" -> <<"made", " ", "to", " ", "order">>
    [] s = "Low Latency" -> <<"Low", " ", "Latency">>
    [] OTHER -> <<s>>

\* str.lower() of a word
LowerWord(word) ==
  CASE word = "Low" -> "low"
    [] word = "Latency" -> "latency"
    [] word = "Web" -> "web"
    [] word = "WEB" -> "web"
    [] word = "Batch" -> "batch"
    [] OTHER -> word

lower(text) == [i \in DOMAIN text |-> LowerWord(text[i])]

\* str.strip(): without the blanks at either end
RECURSIVE strip(_)
strip(text) ==
  IF text = <<>> THEN <<>>
  ELSE IF Head(text) = " " THEN strip(Tail(text))
  ELSE IF text[Len(text)] = " " THEN strip(SubSeq(text, 1, Len(text) - 1))
  ELSE text

\* set(str.split()): the runs between blanks, taken from the left; word is the
\* run being read
RECURSIVE SplitFrom(_, _, _)
SplitFrom(text, i, word) ==
  IF i > Len(text) THEN (IF word = <<>> THEN {} ELSE {word})
  ELSE IF text[i] = " "
       THEN (IF word = <<>> THEN {} ELSE {word}) \cup SplitFrom(text, i + 1, <<>>)
       ELSE SplitFrom(text, i + 1, Append(word, text[i]))

split(text) == SplitFrom(text, 1, <<>>)

\* " ".join(parts)
RECURSIVE join(_)
join(parts) ==
  IF parts = <<>> THEN <<>>
  ELSE IF Len(parts) = 1 THEN parts[1]
  ELSE parts[1] \o <<" ">> \o join(Tail(parts))

\* the text of a record that a query is matched against
RecordText(record) ==
  lower(join(<<Text(record.name), Text(record.description), Text(record.intent),
               join([i \in DOMAIN record.target_workloads |->
                       Text(record.target_workloads[i])]),
               join(record.guardrails)>>))

\* scores are held in parts of ScoreUnit, which every quotient below divides
ScoreUnit == 3000
TOKEN_WEIGHT == 6       \* tenths
EMBEDDING_WEIGHT == 4   \* tenths

\* math.sqrt of a square
RECURSIVE SqrtBetween(_, _, _)
SqrtBetween(n, low, high) ==
  IF low >= high THEN low
  ELSE LET mid == (low + high + 1) \div 2
       IN  IF mid * mid <= n THEN SqrtBetween(n, mid, high)
           ELSE SqrtBetween(n, low, mid - 1)

sqrt(n) == SqrtBetween(n, 0, n)

RECURSIVE Dot(_, _)
Dot(a, b) ==
  IF a = <<>> THEN 0 ELSE a[1].val * b[1].val + Dot(Tail(a), Tail(b))

\* the cosine of the two embeddings, 0 when either is missing or empty, when
\* they differ in length and when either has norm 0
embedding_score(query_embedding, embedding) ==
  IF \/ query_embedding = None
     \/ query_embedding[1] = <<>>
     \/ embedding = <<>>
     \/ Len(query_embedding[1]) # Len(embedding)
  THEN 0
  ELSE LET norm_q == sqrt(Dot(query_embedding[1], query_embedding[1]))
           norm_r == sqrt(Dot(embedding, embedding))
       IN  IF norm_q > 0 /\ norm_r > 0
           THEN (Dot(query_embedding[1], embedding) * ScoreUnit) \div (norm_q * norm_r)
           ELSE 0

token_score(query_tokens, text_tokens) ==
  IF query_tokens = {} THEN 0
  ELSE (Cardinality(query_tokens \cap text_tokens) * ScoreUnit)
         \div Cardinality(query_tokens)

\* mutant: a tag matches a target workload only letter for letter
TagMatch_exact(tags, record) ==
  tags # <<>> =>
    Range(tags) \cap Range(record.target_workloads) # {}

\* the tag filter of search: no tags, or a tag among the target workloads, both
\* lower-cased
TagMatch(tags, record) ==
  LET tags_lower == {LowerWord(tags[i]) : i \in DOMAIN tags}
  IN  tags_lower # {} =>
        tags_lower \cap {LowerWord(record.target_workloads[i]) :
                           i \in DOMAIN record.target_workloads} # {}

PolicyStore_search(store, query, limit, tags, query_embedding) ==
  LET query_tokens == split(strip(lower(query)))
      records == SelectSeq(PolicyStore_list(store), LAMBDA record : TagMatch(tags, record))
      scored == [i \in DOMAIN records |->
                   [record |-> records[i],
                    score |-> (token_score(query_tokens, split(RecordText(records[i])))
                                 * TOKEN_WEIGHT
                               + embedding_score(query_embedding, records[i].embedding)
                                   * EMBEDDING_WEIGHT) \div 10]]
  IN  SliceTo(SortedDescending(scored, [i \in DOMAIN scored |-> scored[i].score]), limit)

-----------------------------------------------------------------------------
(* Request handlers: edgepilot/app.py.  A handler gives [response, policies, jobs]:
   what it returns and the two dicts as it leaves them.  t is the instant the
   request is handled; every _utc_now() of one handler reads t. *)

HTTPException(status_code) == [status |-> "error", status_code |-> status_code]

\* serialize_job: the timestamps as text, and the duration of a job that has
\* both a start and a finish
serialize_job(job) ==
  LET payload == [job_id |-> job.job_id, workload |-> job.workload,
                  policy_id |-> job.policy_id, status |-> job.status,
                  submitted_at |-> isoformat(job.submitted_at),
                  started_at |-> IF job.started_at # None
                                 THEN Some(isoformat(job.started_at[1])) ELSE None,
                  finished_at |-> IF job.finished_at # None
                                  THEN Some(isoformat(job.finished_at[1])) ELSE None,
                  metrics |-> job.metrics, tags |-> job.tags, notes |-> job.notes]
  IN  IF job.started_at # None /\ job.finished_at # None
      THEN payload @@ [duration_seconds |-> job.finished_at[1] - job.started_at[1]]
      ELSE payload

\* What Prometheus answers to one query: transport is FALSE when the request
\* fails or the HTTP status is an error, status is the "status" of the body,
\* result its rows.  A row of a scalar query holds its raw value: None when it
\* is missing or float() rejects it, else the float it parses to.
Answer(result) == [transport |-> TRUE, status |-> "success", result |-> result]

Sample(value) == [value |-> Some(value)]

\* mutant: a failed query counts as one without rows
prom_query_lenient(answer) ==
  IF ~answer.transport \/ answer.status # "success"
  THEN [raised |-> FALSE, result |-> <<>>]
  ELSE [raised |-> FALSE, result |-> answer.result]

prom_query(answer) ==
  IF ~answer.transport THEN [raised |-> TRUE, status_code |-> 502]
  ELSE IF answer.status # "success" THEN [raised |-> TRUE, status_code |-> 500]
  ELSE [raised |-> FALSE, result |-> answer.result]

RECURSIVE SumVal(_)
SumVal(values) ==
  IF values = <<>> THEN 0 ELSE values[1].val + SumVal(Tail(values))

\* avg_vector: the mean of the samples that parse to a finite float, NaN when
\* there is none.  The samples of the model have a mean in whole thousandths.
avg_vector(result) ==
  LET parsed == SelectSeq(result, LAMBDA row : row.value # None)
      values == SelectSeq([i \in DOMAIN parsed |-> parsed[i].value[1]], isfinite)
  IN  IF values # <<>> THEN Exact(SumVal(values) \div Len(values)) ELSE NaN

\* round(x, 2) of a finite float: to the nearest hundredth, a tie to the even one
round2(x) ==
  LET q == x.val \div 10
      r == x.val % 10
  IN  Exact(10 * (IF r < 5 THEN q
                   ELSE IF r > 5 THEN q + 1
                   ELSE IF q % 2 = 0 THEN q ELSE q + 1))

\* a >= b on floats, a finite: never true of NaN, nor of +inf
FloatGE(a, b) == isfinite(b) /\ a.val >= b.val

WorkloadProfileRequest(window, top_containers, cpu_hot_pct, mem_hot_pct, disk_hot_pct, include_network) ==
  [window |-> window, top_containers |-> top_containers, cpu_hot_pct |-> cpu_hot_pct,
   mem_hot_pct |-> mem_hot_pct, disk_hot_pct |-> disk_hot_pct,
   include_network |-> include_network]

WINDOW == "15m"
TOP_CONTAINERS == 5
CPU_HOT_PCT == 80
MEM_HOT_PCT == 80
DISK_HOT_PCT == 85
RECENT_JOBS == 10

\* WorkloadProfileRequest(window=...): the other fields at their defaults
DefaultProfileRequest(window) ==
  WorkloadProfileRequest(window, TOP_CONTAINERS, Float(CPU_HOT_PCT), Float(MEM_HOT_PCT),
                         Float(DISK_HOT_PCT), TRUE)

CPU_DESCRIPTION == "Sustained CPU utilization exceeds target headroom."
MEM_DESCRIPTION == "Available memory is tight; consider spreading or throttling jobs."
DISK_DESCRIPTION == "Disk usage is approaching the configured guardrail."

_contention_signal(metric, description, observed, threshold) ==
  [metric |-> metric, description |-> description, observed_value |-> observed,
   threshold |-> threshold]

\* mutant: the bound itself is not hot
Contention_strict(metric, description, scalar, hot) ==
  IF isfinite(scalar) /\ isfinite(hot) /\ scalar.val > hot.val
  THEN <<_contention_signal(metric, description, round2(scalar), hot)>>
  ELSE <<>>

\* if math.isfinite(x) and x >= hot: contention.append(_contention_signal(...))
Contention(metric, description, scalar, hot) ==
  IF isfinite(scalar) /\ FloatGE(scalar, hot)
  THEN <<_contention_signal(metric, description, round2(scalar), hot)>>
  ELSE <<>>

\* pretty_container_name: the container label, else the last segment of the id
\* cut to 12 characters, else "unknown"
pretty_container_name(labels) ==
  IF labels.container # <<>> THEN labels.container
  ELSE IF labels.id # <<>>
       THEN SubSeq(labels.id[Len(labels.id)], 1, Min(12, Len(labels.id[Len(labels.id)])))
       ELSE <<"u", "n", "k", "n", "o", "w", "n">>

\* row.get("metric", {}): no label is set in a row without metric
RowMetric(row) ==
  IF "metric" \in DOMAIN row THEN row.metric
  ELSE [container |-> <<>>, id |-> <<>>, instance |-> None]

\* _collect_top_containers / _collect_top_network: the rows with a finite value
CollectTop(rows, field) ==
  LET kept == SelectSeq(rows, LAMBDA row : row.value # None /\ isfinite(row.value[1]))
  IN  [i \in DOMAIN kept |->
         [container |-> pretty_container_name(RowMetric(kept[i])),
          instance |-> RowMetric(kept[i]).instance, field |-> field,
          value |-> kept[i].value[1]]]

\* the first of the first n queries that raises, 0 when none does
RECURSIVE FirstFailure(_, _, _)
FirstFailure(telemetry, n, i) ==
  IF i > n THEN 0
  ELSE IF prom_query(telemetry[i]).raised THEN i
  ELSE FirstFailure(telemetry, n, i + 1)

\* mutant: an id the Policy Store does not know is left out of the digest
PolicySummary_known_only(P, usage) ==
  LET known == SelectSeq(usage, LAMBDA u : PolicyStore_get(P, u.key) # None)
      ranked == SortedDescending(known, [i \in DOMAIN known |-> known[i].count])
  IN  [i \in DOMAIN ranked |->
         [policy_id |-> ranked[i].key,
          policy_name |-> Some(PolicyStore_get(P, ranked[i].key)[1].name),
          runs |-> ranked[i].count, last_verified_at |-> None]]

\* the loop over the policy usage, most used first
PolicySummary(P, usage) ==
  LET ranked == SortedDescending(usage, [i \in DOMAIN usage |-> usage[i].count])
  IN  [i \in DOMAIN ranked |->
         LET record == PolicyStore_get(P, ranked[i].key)
         IN  [policy_id |-> ranked[i].key,
              policy_name |-> IF record # None THEN Some(record[1].name) ELSE None,
              runs |-> ranked[i].count,
              last_verified_at |->
                IF record # None /\ record[1].last_verified_at # None
                THEN Some(isoformat(record[1].last_verified_at[1])) ELSE None]]

RECURSIVE SumCounts(_)
SumCounts(counts) ==
  IF counts = <<>> THEN 0 ELSE counts[1].count + SumCounts(Tail(counts))

\* build_workload_profile.  telemetry holds the answers to the queries in the
\* order they are made: CPU, memory, load, disk, top containers and, with
\* include_network, network; the first that raises ends the call.  queries is
\* the number of queries made.
build_workload_profile(P, J, req, telemetry) ==
  LET asked == IF req.include_network THEN 6 ELSE 5
      failed == FirstFailure(telemetry, asked, 1)
  IN  IF failed # 0
      THEN [raised |-> TRUE, status_code |-> prom_query(telemetry[failed]).status_code,
            queries |-> failed]
      ELSE
    LET cpu_util == avg_vector(prom_query(telemetry[1]).result)
        mem_used == avg_vector(prom_query(telemetry[2]).result)
        load_avg == avg_vector(prom_query(telemetry[3]).result)
        disk_used == avg_vector(prom_query(telemetry[4]).result)
        contention ==
          Contention(CPU_UTIL, CPU_DESCRIPTION, cpu_util, req.cpu_hot_pct)
            \o Contention(MEM, MEM_DESCRIPTION, mem_used, req.mem_hot_pct)
            \o Contention(DISK_USED, DISK_DESCRIPTION, disk_used, req.disk_hot_pct)
        status_counts == JobStore_status_counts(J)
    IN  [raised |-> FALSE, queries |-> asked,
         profile |->
           [window |-> req.window,
            cluster_metrics |->
              (CPU_UTIL :> cpu_util @@ MEM :> mem_used @@ LOAD :> load_avg
                 @@ DISK_USED :> disk_used),
            top_cpu_containers |->
              CollectTop(prom_query(telemetry[5]).result, "cpu_seconds_per_s"),
            top_network_containers |->
              IF req.include_network
              THEN CollectTop(prom_query(telemetry[6]).result, "bytes_per_s") ELSE <<>>,
            contention_signals |-> contention,
            job_history |->
              [total_runs |-> SumCounts(status_counts),
               status_counts |-> status_counts,
               recent_jobs |-> LET recent_jobs == JobStore_recent(J, RECENT_JOBS)
                               IN  [i \in DOMAIN recent_jobs |-> serialize_job(recent_jobs[i])],
               policy_usage |-> PolicySummary(P, JobStore_policy_usage(J))]]]

serialize_policy(record) == PolicyRecord_to_dict(record)

PolicySearchRequest(query, limit, tags, query_embedding) ==
  [query |-> query, limit |-> limit, tags |-> tags, query_embedding |-> query_embedding]

\* POST /policies/search
policies_search(P, J, req) ==
  LET results == PolicyStore_search(P, req.query, req.limit, req.tags, req.query_embedding)
  IN  [response |->
         [status |-> "ok",
          results |-> [i \in DOMAIN results |->
                         [policy |-> serialize_policy(results[i].record),
                          score |-> results[i].score]]],
       policies |-> P, jobs |-> J]

\* POST /workloads/profile
workloads_profile(P, J, req, telemetry) ==
  LET built == build_workload_profile(P, J, req, telemetry)
  IN  [response |-> IF built.raised THEN HTTPException(built.status_code)
                    ELSE [status |-> "ok", profile |-> built.profile],
       policies |-> P, jobs |-> J]

\* POST /policies.  fresh is the id policy-<uuid4> made for a request without one.
policies_create(P, J, req, fresh, t) ==
  LET policy_id == IF req.policy_id # None /\ req.policy_id[1] # ""
                   THEN req.policy_id[1] ELSE fresh
      created == PolicyStore_create(P, policy_id, req.name, req.description, req.intent,
                                    req.target_workloads, req.guardrails, req.embedding,
                                    req.kpis, req.notes, t)
  IN  [response |-> [status |-> "ok", policy |-> PolicyStore_get(created, policy_id)[1]],
       policies |-> created, jobs |-> J]

\* POST /policies/{policy_id}/runs
policies_add_run(P, J, policy_id, req, t) ==
  IF req.kpis = EmptyDict
  THEN [response |-> HTTPException(400), policies |-> P, jobs |-> J]
  ELSE LET r == PolicyStore_add_run(P, policy_id, req.workload_label, req.kpis, req.notes, t)
       IN  IF r.raised
           THEN [response |-> HTTPException(404), policies |-> P, jobs |-> J]
           ELSE [response |-> [status |-> "ok",
                               policy |-> PolicyStore_get(r.store, policy_id)[1]],
                 policies |-> r.store, jobs |-> J]

\* mutant: the verification is registered before the violations are looked at
policies_verify_register_first(P, J, policy_id, req, t) ==
  LET record == PolicyStore_get(P, policy_id)
  IN  IF record = None
      THEN [response |-> HTTPException(404), policies |-> P, jobs |-> J]
      ELSE IF req.metrics = EmptyDict
      THEN [response |-> HTTPException(400), policies |-> P, jobs |-> J]
      ELSE LET violations == evaluate_guardrails(record[1], req.metrics, req.guardrail_overrides)
               registered == PolicyStore_register_verification(P, policy_id, t, t).store
           IN  IF violations # <<>>
               THEN [response |-> [status |-> "rejected", violations |-> violations,
                                   metrics |-> req.metrics],
                     policies |-> registered, jobs |-> J]
               ELSE [response |-> [status |-> "ok", activation_token |-> t,
                                   policy |-> PolicyStore_get(registered, policy_id)[1]],
                     policies |-> registered, jobs |-> J]

\* POST /policies/{policy_id}/verify.  The token verify-<uuid4> is fresh with
\* every verification: it is the instant t.
policies_verify(P, J, policy_id, req, t) ==
  LET record == PolicyStore_get(P, policy_id)
  IN  IF record = None
      THEN [response |-> HTTPException(404), policies |-> P, jobs |-> J]
      ELSE IF req.metrics = EmptyDict
      THEN [response |-> HTTPException(400), policies |-> P, jobs |-> J]
      ELSE LET violations == evaluate_guardrails(record[1], req.metrics, req.guardrail_overrides)
               token == t
               registered == PolicyStore_register_verification(P, policy_id, token, t).store
               noted ==
                 IF req.dry_run_notes # None
                 THEN PolicyStore_update_metadata(registered, policy_id, None, None,
                        Some(Append(PolicyStore_get(registered, policy_id)[1].notes,
                                    req.dry_run_notes[1])), t).store
                 ELSE registered
           IN  IF violations # <<>>
               THEN [response |-> [status |-> "rejected", violations |-> violations,
                                   metrics |-> req.metrics],
                     policies |-> P, jobs |-> J]
               ELSE [response |-> [status |-> "ok", activation_token |-> token,
                                   policy |-> PolicyStore_get(noted, policy_id)[1]],
                     policies |-> noted, jobs |-> J]

\* mutant: the status of the body is dropped for the default of the request model
jobs_record_default_status(P, J, req) ==
  LET stored == JobStore_upsert(J, req.job_id, req.workload, req.policy_id, "completed",
                                req.submitted_at, req.started_at, req.finished_at,
                                req.metrics, req.tags, req.notes)
  IN  [response |-> [status |-> "ok", job |-> JobStore_get(stored, req.job_id)[1]],
       policies |-> P, jobs |-> stored]

\* POST /jobs/run; _strip_tz drops the offset of a timestamp, which the integer
\* timestamps of the model do not carry
jobs_record(P, J, req) ==
  LET stored == JobStore_upsert(J, req.job_id, req.workload, req.policy_id, req.status,
                                req.submitted_at, req.started_at, req.finished_at,
                                req.metrics, req.tags, req.notes)
  IN  [response |-> [status |-> "ok", job |-> JobStore_get(stored, req.job_id)[1]],
       policies |-> P, jobs |-> stored]

\* the loop over POLICIES.list(): the scored candidates from the i-th record on
RECURSIVE CandidatesFrom(_, _, _, _, _)
CandidatesFrom(listed, policy_tags, workload_tags, metrics, i) ==
  IF i > Len(listed) THEN <<>>
  ELSE IF /\ policy_tags # <<>>
          /\ Range(policy_tags) \cap Range(listed[i].target_workloads) = {}
       THEN CandidatesFrom(listed, policy_tags, workload_tags, metrics, i + 1)
       ELSE <<score_policy_for_batch(listed[i], workload_tags, metrics)>>
              \o CandidatesFrom(listed, policy_tags, workload_tags, metrics, i + 1)

\* mutant: the ranking is a sort that puts the later of two equal scores first
RankCandidates_unstable(candidates) ==
  LET n == Len(candidates)
      reversed == [i \in 1..n |-> candidates[n + 1 - i]]
  IN  SortedDescending(reversed, [i \in 1..n |-> reversed[i].score])

\* candidates.sort(key=lambda item: item["score"], reverse=True)
RankCandidates(candidates) ==
  SortedDescending(candidates, [i \in DOMAIN candidates |-> candidates[i].score])

\* mutant: the clock is read anew for every descriptor
RECURSIVE RecordAssignments_own_clock(_, _, _, _, _)
RecordAssignments_own_clock(J, descriptors, policy_id, t, i) ==
  IF i > Len(descriptors) THEN J
  ELSE RecordAssignments_own_clock(
         JobStore_upsert(J, descriptors[i].job_id, descriptors[i].workload, Some(policy_id),
                         "scheduled", t, None, None, descriptors[i].hints,
                         descriptors[i].tags, None),
         descriptors, policy_id, t + 1, i + 1)

\* the loop over req.jobs with record_assignments: the Job Store after the
\* descriptors from the i-th on were upserted
RECURSIVE RecordAssignments(_, _, _, _, _)
RecordAssignments(J, descriptors, policy_id, t, i) ==
  IF i > Len(descriptors) THEN J
  ELSE RecordAssignments(
         JobStore_upsert(J, descriptors[i].job_id, descriptors[i].workload, Some(policy_id),
                         "scheduled", t, None, None, descriptors[i].hints,
                         descriptors[i].tags, None),
         descriptors, policy_id, t, i + 1)

Alternative(candidate) ==
  [policy_id |-> candidate.policy.id, policy_name |-> candidate.policy.name,
   score |-> candidate.score, overlap |-> candidate.overlap,
   guardrail_penalties |-> candidate.guardrail_penalties]

\* scheduler_assign behind its first check: profile, candidates, ranking,
\* recording, alternatives
AssignBatch(P, J, req, telemetry, t) ==
  LET profiled == build_workload_profile(P, J, DefaultProfileRequest(req.profile_window), telemetry)
  IN  IF profiled.raised
      THEN [response |-> HTTPException(profiled.status_code), policies |-> P, jobs |-> J]
      ELSE
    LET metrics == profiled.profile.cluster_metrics
        workload_tags == {req.jobs[i].workload : i \in DOMAIN req.jobs}
        candidates == RankCandidates(
          CandidatesFrom(PolicyStore_list(P), req.policy_tags, workload_tags, metrics, 1))
    IN  IF candidates = <<>>
        THEN [response |-> HTTPException(404), policies |-> P, jobs |-> J]
        ELSE
    LET best == candidates[1]
        selected_policy == best.policy
        recorded == IF req.record_assignments
                    THEN RecordAssignments(J, req.jobs, selected_policy.id, t, 1)
                    ELSE J
        assignments ==
          [i \in DOMAIN req.jobs |->
             IF req.record_assignments
             THEN JobRun(req.jobs[i].job_id, req.jobs[i].workload, Some(selected_policy.id),
                         "scheduled", t, None, None, req.jobs[i].hints, req.jobs[i].tags, None)
             ELSE [job_id |-> req.jobs[i].job_id, workload |-> req.jobs[i].workload,
                   policy_id |-> selected_policy.id]]
        rest == SubSeq(candidates, 2, Min(4, Len(candidates)))
        alternatives == [i \in DOMAIN rest |-> Alternative(rest[i])]
    IN  [response |-> [status |-> "ok", policy |-> selected_policy, score |-> best.score,
                       overlap |-> best.overlap,
                       guardrail_penalties |-> best.guardrail_penalties,
                       assignments |-> assignments, alternatives |-> alternatives,
                       workload_profile |-> profiled.profile],
         policies |-> P, jobs |-> recorded]

\* mutant: an empty batch is not turned away
scheduler_assign_unchecked(P, J, req, telemetry, t) ==
  AssignBatch(P, J, req, telemetry, t)

\* mutant: the assignments are recorded whatever the request says
scheduler_assign_recording(P, J, req, telemetry, t) ==
  IF req.jobs = <<>>
  THEN [response |-> HTTPException(400), policies |-> P, jobs |-> J]
  ELSE AssignBatch(P, J, [req EXCEPT !.record_assignments = TRUE], telemetry, t)

\* POST /scheduler/assign
scheduler_assign(P, J, req, telemetry, t) ==
  IF req.jobs = <<>>
  THEN [response |-> HTTPException(400), policies |-> P, jobs |-> J]
  ELSE AssignBatch(P, J, req, telemetry, t)

-----------------------------------------------------------------------------
(* Bounds and input sets *)

MaxGuardrails == 2   \* guardrails per policy record handed to the pure functions
MaxHistory == 6      \* runs in the history of such a record (the cap is 5)

\* "cpu_pct<=80" and its kin
G_cpu_le_80 == CPU \o LE \o <<"8", "0">>
G_cpu_le_80_blanks == CPU \o <<" ">> \o LE \o <<" ">> \o <<"8", "0">>
G_mem_le_80 == MEM \o LE \o <<"8", "0">>
G_cpu_ge_50 == CPU \o GE \o <<"5", "0">>
G_cpu_lt_80 == CPU \o LT \o <<"8", "0">>
G_cpu_gt_80 == CPU \o GT \o <<"8", "0">>
G_disk_le_80 == DISK \o LE \o <<"8", "0">>
\* malformed: "cpu_pct=80", "cpu_pct<=high", "cpu_pct<=", "cpu_pct<=80<90"
G_no_operator == CPU \o <<"=", "8", "0">>
G_bad_threshold == CPU \o LE \o <<"high">>
G_no_threshold == CPU \o LE
G_two_operators == CPU \o LE \o <<"8", "0">> \o LT \o <<"9", "0">>

WellFormedGuardrails ==
  {G_cpu_le_80, G_cpu_le_80_blanks, G_mem_le_80, G_cpu_ge_50, G_cpu_lt_80,
   G_cpu_gt_80, G_disk_le_80}

MalformedGuardrails ==
  {G_no_operator, G_bad_threshold, G_no_threshold, G_two_operators}

GuardrailInputs == WellFormedGuardrails \cup MalformedGuardrails

\* the guardrails of the records handed to score_policy_for_batch
ScoreGuardrailInputs == {G_cpu_le_80, G_mem_le_80, G_no_operator}

SeqsUpTo(S, n) == UNION {[1..k -> S] : k \in 0..n}

FloatInputs == {Float(50), Float(80), Float(85), Float(90), NaN, Inf}

\* metrics maps over cpu_pct and mem_used_pct
MetricsInputs ==
  {m \in UNION {[D -> FloatInputs] : D \in SUBSET {CPU, MEM}} :
     /\ CPU \in DOMAIN m => m[CPU] \in {Float(50), Float(80), Float(85), NaN}
     /\ MEM \in DOMAIN m => m[MEM] \in {Float(90)}}

\* the maps handed to score_policy_for_batch
ScoreMetricsInputs ==
  {m \in MetricsInputs : CPU \in DOMAIN m => m[CPU] \in {Float(50), Float(85)}}

OverridesInputs == {EmptyDict} \cup {[k \in {CPU} |-> 90], [k \in {MEM} |-> 95]}

Tags == {"web", "batch"}

TargetWorkloadInputs ==
  {<<>>, <<"web">>, <<"web", "batch">>, <<"web", "web">>}

\* a record as the pure functions see it: h runs of history, verified or not
FnRecord(target_workloads, guardrails, h, verified) ==
  [PolicyRecord("p1", "policy", target_workloads, guardrails, <<>>, EmptyDict, <<>>, 0)
     EXCEPT !.history = [i \in 1..h |-> PolicyRun(0, None, EmptyDict, None)],
            !.last_verified_at = IF verified THEN Some(0) ELSE None]

-----------------------------------------------------------------------------
(* The pure functions, applied to drawn inputs *)

Idle == request = NoRequest

StoresUnchanged ==
  UNCHANGED <<policies, policy_file, jobs, job_file, now, written, threads, locks, tmp_files, JOB_STATE>>

CallGuardrailFailed ==
  /\ Idle
  /\ \E g \in WellFormedGuardrails, actual \in FloatInputs :
       LET parsed == _parse_guardrail(g)[1]
       IN  /\ request' = [op |-> "_guardrail_failed", guardrail |-> g, actual |-> actual,
                          operator |-> parsed.operator, threshold |-> parsed.threshold]
           /\ response' = _guardrail_failed(actual, parsed.operator, parsed.threshold)
  /\ StoresUnchanged

CallEvaluateGuardrails ==
  /\ Idle
  /\ \E gs \in SeqsUpTo(GuardrailInputs, MaxGuardrails),
        metrics \in MetricsInputs, overrides \in OverridesInputs :
       LET record == FnRecord(<<"web">>, gs, 0, FALSE)
       IN  /\ request' = [op |-> "evaluate_guardrails", record |-> record,
                          metrics |-> metrics, overrides |-> overrides]
           /\ response' = evaluate_guardrails(record, metrics, overrides)
  /\ StoresUnchanged

CallGuardrailPenalties ==
  /\ Idle
  /\ \E gs \in SeqsUpTo(GuardrailInputs, MaxGuardrails), metrics \in MetricsInputs :
       LET record == FnRecord(<<"web">>, gs, 0, FALSE)
       IN  /\ request' = [op |-> "guardrail_penalties_for_metrics", record |-> record,
                          metrics |-> metrics]
           /\ response' = guardrail_penalties_for_metrics(record, metrics)
  /\ StoresUnchanged

CallScorePolicyForBatch ==
  /\ Idle
  /\ \E tw \in TargetWorkloadInputs, gs \in SeqsUpTo(ScoreGuardrailInputs, MaxGuardrails),
        h \in 0..MaxHistory, verified \in BOOLEAN,
        workload_tags \in SUBSET Tags, metrics \in ScoreMetricsInputs :
       LET record == FnRecord(tw, gs, h, verified)
       IN  /\ request' = [op |-> "score_policy_for_batch", record |-> record,
                          workload_tags |-> workload_tags, metrics |-> metrics]
           /\ response' = score_policy_for_batch(record, workload_tags, metrics)
  /\ StoresUnchanged

InitFn ==
  /\ policies = <<>>
  /\ policy_file = <<>>
  /\ jobs = <<>>
  /\ job_file = <<>>
  /\ now = 0
  /\ request = NoRequest
  /\ response = NoResponse
  /\ written = <<>>
  /\ JOB_STATE = <<>>
  /\ NoThreads

NextFn ==
  \/ CallGuardrailFailed
  \/ CallEvaluateGuardrails
  \/ CallGuardrailPenalties
  \/ CallScorePolicyForBatch

SpecFn == InitFn /\ [][NextFn]_vars

-----------------------------------------------------------------------------
(* The guardrail grammar and breach table as the specification words them *)

OperatorChars == {"<", ">", "="}

\* the readings of a guardrail as <metric><op><threshold>, blanks aside: the
\* metric is free of operator characters, the threshold is a decimal number
GrammarReadings(guardrail) ==
  LET c == RemoveSpaces(guardrail)
  IN  {[metric |-> SubSeq(c, 1, i - 1), operator |-> op,
        threshold |-> DecimalValue(SubSeq(c, i + Len(op), Len(c)))] :
         <<i, op>> \in
           {x \in (1..Len(c)) \X {LE, GE, LT, GT} :
              /\ x[1] + Len(x[2]) <= Len(c)
              /\ SubSeq(c, x[1], x[1] + Len(x[2]) - 1) = x[2]
              /\ \A k \in 1..(x[1] - 1) : c[k] \notin OperatorChars
              /\ \A k \in (x[1] + Len(x[2]))..Len(c) : c[k] \in Digits}}

\* the breach table for a finite actual value
BreachTable(actual, operator, threshold) ==
  \/ operator = LE /\ actual > threshold
  \/ operator = GE /\ actual < threshold
  \/ operator = LT /\ actual >= threshold
  \/ operator = GT /\ actual <= threshold

Breached(actual, operator, threshold) ==
  ~actual.fin \/ BreachTable(actual.val, operator, Thousandths(threshold))

\* parseable, metric present in the map, and breached
Penalised(guardrail, metrics) ==
  \E r \in GrammarReadings(guardrail) :
    /\ r.metric \in DOMAIN metrics
    /\ Breached(metrics[r.metric], r.operator, r.threshold)

\* unparseable, or its metric absent from the map
Skipped(guardrail, metrics) ==
  \A r \in GrammarReadings(guardrail) : r.metric \notin DOMAIN metrics

-----------------------------------------------------------------------------
(* C1 *)

\* C1: score_policy_for_batch returns 1.0 + 2.0*overlap + 0.25*min(len(history), 5)
\* + 0.5 if last_verified_at is set - 1.5 * (number of breached guardrails), with
\* overlap the number of workload tags among the target workloads (exact match);
\* target ["web"], guardrail "cpu_pct<=80", no history, not verified, workload
\* "web", metrics {cpu_pct: 50} gives 3.0, overlap 1 and no penalty.  Quarter points.
C1_ScoreFormula ==
  request.op = "score_policy_for_batch" =>
    LET record == request.record
        overlap == Cardinality({t \in request.workload_tags :
                                  \E i \in DOMAIN record.target_workloads :
                                    record.target_workloads[i] = t})
        breached == Cardinality({i \in DOMAIN record.guardrails :
                                   Penalised(record.guardrails[i], request.metrics)})
        capped == IF Len(record.history) < 5 THEN Len(record.history) ELSE 5
    IN  /\ response.overlap = overlap
        /\ response.score = 4 + 8 * overlap + capped
                              + (IF record.last_verified_at = None THEN 0 ELSE 2)
                              - 6 * breached
        /\ ( /\ record.target_workloads = <<"web">>
             /\ record.guardrails = <<G_cpu_le_80>>
             /\ record.history = <<>>
             /\ record.last_verified_at = None
             /\ request.workload_tags = {"web"}
             /\ request.metrics = [k \in {CPU} |-> Float(50)] )
           => ( /\ response.score = 12
                /\ response.overlap = 1
                /\ response.guardrail_penalties = <<>> )

\* the scenario of C1 has been scored, and so has a record with more than five
\* runs, a verification and a breached guardrail
C1_Witness ==
  /\ request.op = "score_policy_for_batch"
  /\ Len(request.record.history) > 5
  /\ request.record.last_verified_at # None
  /\ Len(response.guardrail_penalties) = 2
  /\ response.overlap = 2

-----------------------------------------------------------------------------
(* C3 *)

\* C3: for a finite actual and threshold _guardrail_failed reports a breach iff
\* <= : actual > threshold, >= : actual < threshold, < : actual >= threshold,
\* > : actual <= threshold; a non-finite actual is breached for every operator;
\* "cpu_pct<=80" is breached at 85 and not at 80.
C3_BreachTable ==
  request.op = "_guardrail_failed" =>
    /\ request.actual.fin =>
         (response <=> BreachTable(request.actual.val, request.operator,
                                    Thousandths(request.threshold)))
    /\ ~request.actual.fin => response
    /\ request.guardrail = G_cpu_le_80 =>
         /\ request.operator = LE /\ request.threshold = 80
         /\ request.actual = Float(85) => response
         /\ request.actual = Float(80) => ~response

\* "cpu_pct<=80" was evaluated on its boundary and was not breached
C3_Witness ==
  /\ request.op = "_guardrail_failed"
  /\ request.guardrail = G_cpu_le_80
  /\ request.actual = Float(80)
  /\ response = FALSE

-----------------------------------------------------------------------------
(* C4 *)

WithGuardrail(record, g) == [record EXCEPT !.guardrails = Append(@, g)]

\* C4: in batch scoring a guardrail contributes a penalty iff it parses as
\* <metric><op><threshold>, its metric is a key of the metrics map and it is
\* breached; adding an unparseable guardrail, or one whose metric is absent from
\* the map, leaves the score and the penalty list unchanged.
C4_PenaltyIffBreached ==
  /\ request.op = "guardrail_penalties_for_metrics" =>
       LET gs == request.record.guardrails
           expected == SelectSeq(gs, LAMBDA g : Penalised(g, request.metrics))
       IN  /\ response.count = Len(expected)
           /\ Len(response.penalties) = Len(expected)
           /\ \A k \in DOMAIN expected : response.penalties[k].guardrail = expected[k]
  /\ request.op = "guardrail_penalties_for_metrics" =>
       \A g \in GuardrailInputs, workload_tags \in {{"web"}} :
         Skipped(g, request.metrics) =>
           LET less == score_policy_for_batch(request.record, workload_tags, request.metrics)
               more == score_policy_for_batch(WithGuardrail(request.record, g),
                                              workload_tags, request.metrics)
           IN  /\ less.guardrail_penalties = response.penalties
               /\ more.guardrail_penalties = response.penalties
               /\ more.score = less.score

\* penalties were computed for a record with a breached guardrail and a skipped one
C4_Witness ==
  /\ request.op = "guardrail_penalties_for_metrics"
  /\ response.count = 1
  /\ \E i \in DOMAIN request.record.guardrails :
       Skipped(request.record.guardrails[i], request.metrics)

-----------------------------------------------------------------------------
(* C5 *)

\* what the specification says of one guardrail under verification
VerificationReason(guardrail, metrics, overrides) ==
  IF GrammarReadings(guardrail) = {} THEN Some(REASON_PARSE)
  ELSE LET r == CHOOSE x \in GrammarReadings(guardrail) : TRUE
       IN  IF r.metric \notin DOMAIN metrics THEN Some(REASON_MISSING)
           ELSE IF Breached(metrics[r.metric], r.operator,
                            IF r.metric \in DOMAIN overrides
                            THEN overrides[r.metric] ELSE r.threshold)
                THEN Some(REASON_BREACH)
                ELSE None

\* C5: evaluate_guardrails returns, in guardrail order, exactly one violation for
\* every guardrail that is unparseable, or whose metric is not in the payload, or
\* that is breached against its threshold (the override replacing the written
\* one), each kind with its own reason, and none for any other guardrail;
\* "mem_used_pct<=80" with {mem_used_pct: 90} gives exactly one violation with
\* actual 90, threshold 80 and operator <=.
C5_AllViolations ==
  request.op = "evaluate_guardrails" =>
    LET gs == request.record.guardrails
        metrics == request.metrics
        overrides == request.overrides
        expected == SelectSeq(gs, LAMBDA g : VerificationReason(g, metrics, overrides) # None)
    IN  /\ Len(response) = Len(expected)
        /\ \A k \in DOMAIN expected :
             /\ response[k].guardrail = expected[k]
             /\ response[k].reason = VerificationReason(expected[k], metrics, overrides)[1]
        /\ Cardinality({REASON_PARSE, REASON_MISSING, REASON_BREACH}) = 3
        /\ ( /\ gs = <<G_mem_le_80>>
             /\ metrics = [k \in {MEM} |-> Float(90)]
             /\ overrides = EmptyDict )
           => ( /\ Len(response) = 1
                /\ response[1].actual = Float(90)
                /\ response[1].threshold = 80
                /\ response[1].operator = LE )

\* a verification met an unparseable guardrail and one breached only under an override
C5_Witness ==
  /\ request.op = "evaluate_guardrails"
  /\ request.overrides # EmptyDict
  /\ Len(response) = 2
  /\ response[1].reason = REASON_PARSE
  /\ response[2].reason = REASON_BREACH
  /\ evaluate_guardrails(request.record, request.metrics, EmptyDict)
       # response

-----------------------------------------------------------------------------
(* The Job Store driven through its methods *)

MaxTime == 2    \* the timestamps callers hand in are 1..MaxTime
MaxLimit == 2   \* the limits handed to recent() are 0..MaxLimit

JobIds == {"j1", "j2"}
Times == 1..MaxTime
OptionalTimes == {None} \cup {Some(t) : t \in Times}

\* the records callers write: a scheduled job has no start or finish, a running
\* one a start, a finished one a finish and possibly a start
JobInputs ==
  [status : {"scheduled"}, submitted_at : Times, started_at : {None}, finished_at : {None}]
  \cup [status : {"running"}, submitted_at : Times,
        started_at : OptionalTimes \ {None}, finished_at : {None}]
  \cup [status : {"succeeded"}, submitted_at : Times,
        started_at : OptionalTimes, finished_at : OptionalTimes \ {None}]

\* JobStore.upsert(...)
Upsert ==
  \E job_id \in JobIds, in \in JobInputs :
    LET job == JobRun(job_id, "web", None, in.status, in.submitted_at, in.started_at,
                      in.finished_at, EmptyDict, <<>>, None)
    IN  /\ jobs' = JobStore_upsert(jobs, job_id, "web", None, in.status, in.submitted_at,
                                   in.started_at, in.finished_at, EmptyDict, <<>>, None)
        /\ job_file' = JobStore_save(jobs')
        /\ written' = [k \in DOMAIN written \cup {job_id} |->
                         IF k = job_id THEN job ELSE written[k]]
        /\ request' = [op |-> "upsert", job_id |-> job_id]
        /\ response' = job
        /\ UNCHANGED <<policies, policy_file, now, threads, locks, tmp_files, JOB_STATE>>

\* JobStore.recent(limit)
Recent ==
  \E limit \in 0..MaxLimit :
    /\ request' = [op |-> "recent", limit |-> limit]
    /\ response' = JobStore_recent(jobs, limit)
    /\ UNCHANGED <<policies, policy_file, jobs, job_file, now, written, threads, locks, tmp_files, JOB_STATE>>

InitJobs == InitFn

NextJobs == Upsert \/ Recent

SpecJobs == InitJobs /\ [][NextJobs]_vars

-----------------------------------------------------------------------------
(* C9 *)

\* C9: get(job_id) returns exactly the record written by the most recent upsert of
\* that job_id, every field coming from that upsert alone; get of an id never
\* written is absent; list() never holds two entries with the same job_id.
C9_LastWriteWins ==
  /\ \A job_id \in JobIds :
       JobStore_get(jobs, job_id) = DictGet(written, job_id)
  /\ \A i, k \in DOMAIN JobStore_list(jobs) :
       JobStore_list(jobs)[i].job_id = JobStore_list(jobs)[k].job_id => i = k

\* a job written running with a start was written again as scheduled, without one,
\* while the other job was never written
C9_Witness ==
  /\ request.op = "upsert"
  /\ response.started_at = None
  /\ Len(jobs) = 1
  /\ \E job_id \in JobIds : DictGet(written, job_id) = None

-----------------------------------------------------------------------------
(* C10 *)

\* the timestamp recent() orders by, as the specification words it
EffectiveTimestamp(job) ==
  CASE job.finished_at # None -> job.finished_at[1]
    [] job.finished_at = None /\ job.started_at # None -> job.started_at[1]
    [] OTHER -> job.submitted_at

-----------------------------------------------------------------------------
(* The service: both stores behind the request handlers *)

MaxClock == 3   \* requests handled; the clock reads 1..MaxClock while they are

G_cpu_util_le_80 == CPU_UTIL \o LE \o <<"8", "0">>

\* the seed file
SeedPolicies ==
  <<[id |-> "p1", name |-> "latency", target_workloads |-> <<"web">>,
     guardrails |-> <<G_cpu_util_le_80>>],
    [id |-> "p2", name |-> "throughput", target_workloads |-> <<"batch">>,
     guardrails |-> <<G_mem_le_80>>]>>

\* PolicyRecord.from_dict of a seed entry: the fields it lacks take their defaults
SeedRecord(entry, t) == PolicyRecord_from_dict(entry, t)

\* mutant: a seed takes the place of the record loaded under its id
RECURSIVE _ensure_seed_policies_overwrite(_, _, _, _)
_ensure_seed_policies_overwrite(store, seeds, t, i) ==
  IF i > Len(seeds) THEN store
  ELSE _ensure_seed_policies_overwrite(
         IF PolicyIndex(store, seeds[i].id) = 0
         THEN Append(store, SeedRecord(seeds[i], t))
         ELSE [store EXCEPT ![PolicyIndex(store, seeds[i].id)] = SeedRecord(seeds[i], t)],
         seeds, t, i + 1)

\* _ensure_seed_policies: the seeds from the i-th on whose id is not a key go in
RECURSIVE _ensure_seed_policies(_, _, _, _)
_ensure_seed_policies(store, seeds, t, i) ==
  IF i > Len(seeds) THEN store
  ELSE _ensure_seed_policies(
         IF PolicyIndex(store, seeds[i].id) = 0
         THEN Append(store, SeedRecord(seeds[i], t)) ELSE store,
         seeds, t, i + 1)

\* PolicyStore(path, seeds_path): _load, then the seeds, then one _save if a seed
\* went in.  An absent seed file is a seed file without entries.  writes are the
\* documents written to the canonical path, in order.
PolicyStore_init(document, seeds, t) ==
  LET loaded == PolicyStore_load(document, t)
      seeded == _ensure_seed_policies(loaded, seeds, t, 1)
      changed == \E i \in DOMAIN seeds : PolicyIndex(loaded, seeds[i].id) = 0
  IN  [policies |-> seeded,
       writes |-> IF changed THEN <<PolicyStore_save(seeded)>> ELSE <<>>]

\* the instant a request is handled
Tick == now + 1

\* Prometheus with one sample per scalar and no containers
Telemetry(cpu_util, mem_used) ==
  <<Answer(<<Sample(cpu_util)>>), Answer(<<Sample(mem_used)>>), Answer(<<Sample(Float(1))>>),
    Answer(<<Sample(Float(40))>>), Answer(<<>>), Answer(<<>>)>>

\* Prometheus cannot be reached
TelemetryDown == [i \in 1..6 |-> [transport |-> FALSE, status |-> "", result |-> <<>>]]

Descriptor(job_id, workload) ==
  [job_id |-> job_id, workload |-> workload, tags |-> <<>>, hints |-> EmptyDict]

ScheduleBatchRequest(batch, policy_tags, record_assignments) ==
  [op |-> "scheduler_assign", jobs |-> batch, profile_window |-> WINDOW,
   policy_tags |-> policy_tags, record_assignments |-> record_assignments]

\* what a client's clock, or a timestamp stripped of its offset, may read
ClientTimes == {1, MaxClock + 1}

VerifyMetricsCool == (CPU_UTIL :> Float(50) @@ MEM :> Float(50))
VerifyMetricsHot == (CPU_UTIL :> Float(90) @@ MEM :> Float(90))

VerifyInputs ==
  {[metrics |-> EmptyDict, guardrail_overrides |-> EmptyDict, dry_run_notes |-> None],
   [metrics |-> VerifyMetricsCool, guardrail_overrides |-> EmptyDict, dry_run_notes |-> None],
   [metrics |-> VerifyMetricsCool, guardrail_overrides |-> EmptyDict,
    dry_run_notes |-> Some("dry run")],
   [metrics |-> VerifyMetricsHot, guardrail_overrides |-> EmptyDict, dry_run_notes |-> None],
   [metrics |-> VerifyMetricsHot,
    guardrail_overrides |-> (CPU_UTIL :> 95 @@ MEM :> 95), dry_run_notes |-> None],
   [metrics |-> [k \in {MEM} |-> Float(90)], guardrail_overrides |-> EmptyDict,
    dry_run_notes |-> None]}

RunInputs ==
  {[workload_label |-> None, kpis |-> EmptyDict, notes |-> None],
   [workload_label |-> Some("web"), kpis |-> [k \in {"p99_latency_ms"} |-> Float(41)],
    notes |-> None]}

JobEventInputs ==
  {[job_id |-> job_id, workload |-> "web", policy_id |-> Some("p1"), status |-> "running",
    submitted_at |-> t, started_at |-> Some(t), finished_at |-> None,
    metrics |-> EmptyDict, tags |-> <<>>, notes |-> None] :
     job_id \in {"j0", "j1"}, t \in ClientTimes}
  \cup
  {[job_id |-> job_id, workload |-> "web", policy_id |-> None, status |-> "succeeded",
    submitted_at |-> 1, started_at |-> None, finished_at |-> Some(t),
    metrics |-> EmptyDict, tags |-> <<>>, notes |-> None] :
     job_id \in {"j0"}, t \in ClientTimes}

AssignInputs ==
  {<<ScheduleBatchRequest(<<>>, <<>>, TRUE), Telemetry(Float(50), Float(50))>>,
   <<ScheduleBatchRequest(<<Descriptor("j1", "web")>>, <<>>, TRUE), TelemetryDown>>,
   <<ScheduleBatchRequest(<<Descriptor("j1", "web")>>, <<"gpu">>, TRUE),
     Telemetry(Float(50), Float(50))>>,
   <<ScheduleBatchRequest(<<Descriptor("j1", "web")>>, <<>>, TRUE),
     Telemetry(Float(50), Float(50))>>,
   <<ScheduleBatchRequest(<<Descriptor("j1", "web")>>, <<>>, TRUE),
     Telemetry(Float(90), Float(50))>>,
   <<ScheduleBatchRequest(<<Descriptor("j1", "web")>>, <<>>, TRUE),
     Telemetry(NaN, NaN)>>,
   <<ScheduleBatchRequest(<<Descriptor("j1", "web")>>, <<>>, FALSE),
     Telemetry(Float(50), Float(50))>>,
   <<ScheduleBatchRequest(<<Descriptor("j1", "web"), Descriptor("j2", "batch")>>, <<>>, TRUE),
     Telemetry(Float(50), Float(50))>>,
   <<ScheduleBatchRequest(<<Descriptor("j1", "web"), Descriptor("j1", "batch")>>,
                          <<"batch", "gpu">>, TRUE),
     Telemetry(Float(50), Float(90))>>}

\* the stores as a handler leaves them, and what it answered; record() writes
\* the job document, every Policy Store mutation the policy document
Handled(req, result) ==
  /\ now' = Tick
  /\ request' = req
  /\ response' = result.response
  /\ policies' = result.policies
  /\ policy_file' = IF result.policies # policies THEN PolicyStore_save(result.policies)
                    ELSE policy_file
  /\ jobs' = result.jobs
  /\ job_file' = IF result.jobs # jobs \/ req.op = "jobs_record"
                 THEN JobStore_save(result.jobs) ELSE job_file
  /\ written' = [k \in {result.jobs[i].job_id : i \in DOMAIN result.jobs} |->
                   JobStore_get(result.jobs, k)[1]]
  /\ ThreadsUnchanged

PoliciesAddRun ==
  /\ now < MaxClock
  /\ \E policy_id \in {"p1", "p9"}, body \in RunInputs :
       Handled([op |-> "policies_add_run", policy_id |-> policy_id] @@ body,
               policies_add_run(policies, jobs, policy_id, body, Tick))

PoliciesVerify ==
  /\ now < MaxClock
  /\ \E policy_id \in {"p1", "p2", "p9"}, body \in VerifyInputs :
       Handled([op |-> "policies_verify", policy_id |-> policy_id] @@ body,
               policies_verify(policies, jobs, policy_id, body, Tick))

JobsRecord ==
  /\ now < MaxClock
  /\ \E body \in JobEventInputs :
       Handled([op |-> "jobs_record"] @@ body, jobs_record(policies, jobs, body))

SchedulerAssign(inputs) ==
  /\ now < MaxClock
  /\ \E in \in inputs :
       Handled(in[1] @@ [telemetry |-> in[2]],
               scheduler_assign(policies, jobs, in[1], in[2], Tick))

Init ==
  /\ policies = _ensure_seed_policies(<<>>, SeedPolicies, 0, 1)
  /\ policy_file = PolicyStore_save(policies)
  /\ jobs = <<>>
  /\ job_file = <<>>
  /\ now = 0
  /\ request = NoRequest
  /\ response = NoResponse
  /\ written = <<>>
  /\ JOB_STATE = <<>>
  /\ NoThreads

Next ==
  \/ PoliciesAddRun
  \/ PoliciesVerify
  \/ JobsRecord
  \/ SchedulerAssign(AssignInputs)

Spec == Init /\ [][Next]_vars

-----------------------------------------------------------------------------
(* C6 *)

\* C6: policies_verify on an existing policy with a non-empty metrics payload
\* issues an activation token and sets last_verified_at and last_activation_token
\* if and only if no guardrail is violated; with a violation it answers rejected
\* with the violations, issues no token, and leaves every record of the Policy
\* Store and the persisted file as they were.
C6_VerifyIffNoViolations ==
  [][ ( /\ request'.op = "policies_verify"
        /\ PolicyStore_get(policies, request'.policy_id) # None
        /\ request'.metrics # EmptyDict )
      =>
        LET id == request'.policy_id
            before == PolicyStore_get(policies, id)[1]
            after == PolicyStore_get(policies', id)[1]
            violated == {i \in DOMAIN before.guardrails :
                           VerificationReason(before.guardrails[i], request'.metrics,
                                              request'.guardrail_overrides) # None}
            issued == "activation_token" \in DOMAIN response'
        IN  /\ issued <=> violated = {}
            /\ violated = {} =>
                 /\ response'.status = "ok"
                 /\ after.last_verified_at = Some(now')
                 /\ after.last_activation_token = Some(response'.activation_token)
                 /\ after.last_activation_token # before.last_activation_token
            /\ violated # {} =>
                 /\ response'.status = "rejected"
                 /\ Len(response'.violations) = Cardinality(violated)
                 /\ policies' = policies
                 /\ policy_file' = policy_file ]_vars

\* a verified policy was verified again and rejected: it keeps its verification
C6_Witness ==
  /\ request.op = "policies_verify"
  /\ response.status = "rejected"
  /\ PolicyStore_get(policies, request.policy_id)[1].last_verified_at # None
  /\ policy_file = PolicyStore_save(policies)

-----------------------------------------------------------------------------
(* C7 *)

\* scheduler_assign has just recorded its batch
Assigned ==
  /\ request.op = "scheduler_assign"
  /\ response.status = "ok"
  /\ request.record_assignments

BatchIds == {request.jobs[i].job_id : i \in DOMAIN request.jobs}

\* every descriptor of the batch has its scheduled record, all of one instant
BatchRecorded ==
  /\ \A id \in BatchIds :
       LET r == JobStore_get(jobs, id)
       IN  /\ r # None
           /\ r[1].status = "scheduled"
           /\ r[1].policy_id = Some(response.policy.id)
           /\ r[1].started_at = None
           /\ r[1].finished_at = None
  /\ \A a \in BatchIds, b \in BatchIds :
       JobStore_get(jobs, a)[1].submitted_at = JobStore_get(jobs, b)[1].submitted_at

RecentIsOfBatch ==
  LET top == JobStore_recent(jobs, 1)
  IN  /\ Len(top) = 1
      /\ top[1].job_id \in BatchIds
      /\ top[1].status = "scheduled"

\* every record of another job has an effective timestamp before the batch's
OthersEarlier ==
  \A k \in DOMAIN jobs :
    jobs[k].job_id \notin BatchIds =>
      \A id \in BatchIds :
        EffectiveTimestamp(jobs[k]) < JobStore_get(jobs, id)[1].submitted_at

\* C7 as stated: after a successful scheduler_assign with record_assignments the
\* Job Store holds for every descriptor a scheduled record with the winner's
\* policy_id, no started_at or finished_at and one shared submitted_at, and
\* recent(1) returns one of these records.
C7_Original == Assigned => (BatchRecorded /\ RecentIsOfBatch)

\* C7 as amended: the same, recent(1) returning one of these records provided
\* every record of a job outside the batch has an effective timestamp earlier
\* than the batch's submitted_at.
C7_Amended == Assigned => (BatchRecorded /\ (OthersEarlier => RecentIsOfBatch))

\* a batch of two recorded next to an older job
C7_Witness ==
  /\ Assigned
  /\ Cardinality(BatchIds) = 2
  /\ Len(jobs) = 3
  /\ OthersEarlier

-----------------------------------------------------------------------------
(* C8 *)

\* C8: scheduler_assign fails with status 400 on an empty batch and fails when no
\* policy passes the tag filter; either way no JobRun is recorded and both stores
\* and their files stay as they were.
C8_AssignFailsCleanly ==
  [][ request'.op = "scheduler_assign" =>
        LET tags == request'.policy_tags
            cands == {i \in DOMAIN policies :
                        \/ tags = <<>>
                        \/ \E a \in DOMAIN tags, b \in DOMAIN policies[i].target_workloads :
                             tags[a] = policies[i].target_workloads[b]}
            untouched == /\ jobs' = jobs
                         /\ job_file' = job_file
                         /\ policies' = policies
                         /\ policy_file' = policy_file
        IN  /\ request'.jobs = <<>> => (response' = HTTPException(400) /\ untouched)
            /\ (request'.jobs # <<>> /\ cands = {}) =>
                 (response'.status = "error" /\ untouched) ]_vars

\* an empty batch turned away while the Job Store holds records
C8_Witness ==
  /\ request.op = "scheduler_assign"
  /\ request.jobs = <<>>
  /\ response = HTTPException(400)
  /\ jobs # <<>>

-----------------------------------------------------------------------------
(* Ranking: one batch assigned against a catalog of policies *)

MaxPolicies == 5   \* policies in the catalog

RankIds == [i \in 1..(MaxPolicies + 1) |->
              CASE i = 1 -> "p1" [] i = 2 -> "p2" [] i = 3 -> "p3" [] i = 4 -> "p4"
                [] i = 5 -> "p5" [] i = 6 -> "p6" [] OTHER -> "p7"]

\* what the records of a catalog look like
RankShapes ==
  {[target_workloads |-> <<"web">>, guardrails |-> <<>>, runs |-> 0],
   [target_workloads |-> <<"batch">>, guardrails |-> <<G_cpu_util_le_80>>, runs |-> 0],
   [target_workloads |-> <<"web", "batch">>, guardrails |-> <<G_cpu_util_le_80>>, runs |-> 2]}

\* the persisted catalogs: up to MaxPolicies records, their ids in file order
RankCatalogs ==
  {[i \in 1..n |->
      [PolicyRecord(RankIds[i], "policy", shapes[i].target_workloads, shapes[i].guardrails,
                    <<>>, EmptyDict, <<>>, 0)
         EXCEPT !.history = [k \in 1..shapes[i].runs |-> PolicyRun(0, None, EmptyDict, None)]]] :
     n \in 0..MaxPolicies, shapes \in [1..MaxPolicies -> RankShapes]}

RankAssignInputs ==
  {<<ScheduleBatchRequest(batch, policy_tags, FALSE), Telemetry(cpu_util, Float(50))>> :
     batch \in {<<Descriptor("j1", "web")>>,
                <<Descriptor("j1", "web"), Descriptor("j2", "batch")>>},
     policy_tags \in {<<>>, <<"web">>, <<"gpu">>},
     cpu_util \in {Float(50), Float(90)}}

InitRank ==
  /\ policies \in RankCatalogs
  /\ policy_file = PolicyStore_save(policies)
  /\ jobs = <<>>
  /\ job_file = <<>>
  /\ now = 0
  /\ request = NoRequest
  /\ response = NoResponse
  /\ written = <<>>
  /\ JOB_STATE = <<>>
  /\ NoThreads

NextRank == Idle /\ SchedulerAssign(RankAssignInputs)

SpecRank == InitRank /\ [][NextRank]_vars

-----------------------------------------------------------------------------
(* C2 *)

\* C2: the candidates of scheduler_assign are exactly the policies whose
\* target_workloads intersect policy_tags (all policies when policy_tags is empty);
\* the winner is a candidate of maximal score, the first enumerated among equal
\* scores; the alternatives are the next three of the ranking in order (fewer when
\* fewer remain) and never include the winner.
C2_Selection ==
  (request.op = "scheduler_assign" /\ request.jobs # <<>>
     /\ FirstFailure(request.telemetry, 6, 1) = 0) =>
    LET tags == request.policy_tags
        cands == {i \in DOMAIN policies :
                    \/ tags = <<>>
                    \/ \E a \in DOMAIN tags, b \in DOMAIN policies[i].target_workloads :
                         tags[a] = policies[i].target_workloads[b]}
        workloads == {request.jobs[i].workload : i \in DOMAIN request.jobs}
        metrics == build_workload_profile(policies, jobs, DefaultProfileRequest(WINDOW),
                                          request.telemetry).profile.cluster_metrics
        Score(i) == score_policy_for_batch(policies[i], workloads, metrics).score
        Ahead(a, b) == Score(a) > Score(b) \/ (Score(a) = Score(b) /\ a < b)
        Place(i) == 1 + Cardinality({d \in cands : Ahead(d, i)})
    IN  /\ response.status = "ok" <=> cands # {}
        /\ response.status = "ok" =>
             /\ \E w \in cands :
                  /\ Place(w) = 1
                  /\ response.policy = policies[w]
                  /\ response.score = Score(w)
             /\ Len(response.alternatives) = Min(3, Cardinality(cands) - 1)
             /\ \A k \in DOMAIN response.alternatives :
                  /\ \E c \in cands :
                       /\ Place(c) = k + 1
                       /\ response.alternatives[k].policy_id = policies[c].id
                       /\ response.alternatives[k].score = Score(c)
                  /\ response.alternatives[k].policy_id # response.policy.id

\* five candidates, the first two of equal score: one wins, three are
\* alternatives, one is left out
C2_Witness ==
  /\ request.op = "scheduler_assign"
  /\ response.status = "ok"
  /\ Len(policies) = 5
  /\ Len(response.alternatives) = 3
  /\ response.alternatives[1].score = response.score
  /\ request.policy_tags # <<>>

-----------------------------------------------------------------------------
(* C11 *)

\* how far along scheduled -> running -> succeeded | failed a status is
StatusRank(status) ==
  CASE status = "scheduled" -> 1
    [] status = "running" -> 2
    [] status \in {"succeeded", "failed"} -> 3
    [] OTHER -> 0

StoredJobIds(store) == {store[i].job_id : i \in DOMAIN store}

\* C11 as stated: for every job_id, over any sequence of scheduler_assign and
\* /jobs/run requests, the stored status only moves along scheduled -> running ->
\* succeeded or failed: never back, never away from a terminal status, and a
\* re-assignment does not reset a running or finished job to scheduled.
C11_Original ==
  [][ \A id \in StoredJobIds(jobs) :
        LET before == JobStore_get(jobs, id)[1].status
            after == JobStore_get(jobs', id)[1].status
        IN  /\ StatusRank(after) >= StatusRank(before)
            /\ StatusRank(before) = 3 => after = before ]_vars

\* C11 as amended: for every job_id the stored status is the one the latest
\* request that wrote the job carries (/jobs/run the status of its body, a
\* successful scheduler_assign with record_assignments "scheduled"), whatever
\* the status stored before; a request that does not name the job leaves its
\* status alone, and no job is dropped.
C11_Amended ==
  [][ /\ \A id \in StoredJobIds(jobs) : id \in StoredJobIds(jobs')
      /\ \A id \in StoredJobIds(jobs') :
           LET after == JobStore_get(jobs', id)[1].status
               event == request'.op = "jobs_record" /\ request'.job_id = id
               assigned == /\ request'.op = "scheduler_assign"
                           /\ response'.status = "ok"
                           /\ request'.record_assignments
                           /\ \E i \in DOMAIN request'.jobs : request'.jobs[i].job_id = id
           IN  /\ event => after = request'.status
               /\ assigned => after = "scheduled"
               /\ ~(event \/ assigned) =>
                    /\ id \in StoredJobIds(jobs)
                    /\ after = JobStore_get(jobs, id)[1].status ]_vars

\* a lifecycle event reported a job running that an assignment had recorded
C11_Witness ==
  /\ request.op = "jobs_record"
  /\ request.status = "running"
  /\ JobStore_get(jobs, request.job_id) # None
  /\ JobStore_get(jobs, request.job_id)[1].status = "running"
  /\ \E id \in StoredJobIds(jobs) : JobStore_get(jobs, id)[1].status = "scheduled"

-----------------------------------------------------------------------------
(* The stores: the Policy Store's and the Job Store's mutating methods, and the
   two requests that create a policy and record a run *)

MaxOps == 3   \* calls made

\* policy-<uuid4().hex[:8]>: an id no earlier request was given
FreshPolicyId(t) ==
  CASE t = 1 -> "policy-0001" [] t = 2 -> "policy-0002" [] t = 3 -> "policy-0003"
    [] t = 4 -> "policy-0004" [] OTHER -> "policy-0005"

PolicyCreateRequest(policy_id, embedding, kpis) ==
  [op |-> "policies_create", policy_id |-> policy_id, name |-> "custom",
   description |-> "made to order", intent |-> "latency",
   target_workloads |-> <<"web">>, guardrails |-> <<G_cpu_util_le_80>>,
   embedding |-> embedding, kpis |-> kpis, notes |-> <<>>]

CreateInputs ==
  {PolicyCreateRequest(None, None, EmptyDict),
   PolicyCreateRequest(Some("p1"), None, EmptyDict),
   PolicyCreateRequest(Some("p3"), Some(<<Float(1)>>), [k \in {"cost"} |-> Float(3)])}

StoreRunInputs ==
  {[workload_label |-> None, kpis |-> EmptyDict, notes |-> None],
   [workload_label |-> Some("web"), kpis |-> [k \in {"latency"} |-> Float(41)],
    notes |-> None],
   [workload_label |-> None,
    kpis |-> [k \in {"latency", "cost"} |-> IF k = "cost" THEN Float(3) ELSE Float(55)],
    notes |-> Some("night")]}

MetadataInputs ==
  {[guardrails |-> guardrails, embedding |-> embedding, notes |-> notes] :
     guardrails \in {None, Some(<<>>), Some(<<G_mem_le_80>>)},
     embedding \in {None, Some(<<Float(1)>>)},
     notes \in {None, Some(<<"tuned">>)}}

\* a store method called for itself: it raises before it touches anything, or
\* ends in _save()
StoreCall(req, result) ==
  /\ now' = Tick
  /\ request' = req
  /\ response' = IF result.raised THEN [status |-> "KeyError"] ELSE [status |-> "ok"]
  /\ policies' = result.store
  /\ policy_file' = IF result.raised THEN policy_file ELSE PolicyStore_save(result.store)
  /\ UNCHANGED <<jobs, job_file, written, JOB_STATE>>
  /\ ThreadsUnchanged

PolicyCreate ==
  /\ now < MaxOps
  /\ \E req \in CreateInputs :
       Handled(req, policies_create(policies, jobs, req, FreshPolicyId(Tick), Tick))

PolicyAddRun ==
  /\ now < MaxOps
  /\ \E policy_id \in {"p1", "p9"}, body \in StoreRunInputs :
       Handled([op |-> "policies_add_run", policy_id |-> policy_id] @@ body,
               policies_add_run(policies, jobs, policy_id, body, Tick))

PolicyUpdateMetadata ==
  /\ now < MaxOps
  /\ \E policy_id \in {"p1", "p9"}, in \in MetadataInputs :
       /\ policy_id = "p9" => in = [guardrails |-> None, embedding |-> None, notes |-> None]
       /\ StoreCall([op |-> "update_metadata", policy_id |-> policy_id] @@ in,
                    PolicyStore_update_metadata(policies, policy_id, in.guardrails,
                                                in.embedding, in.notes, Tick))

PolicyRegisterVerification ==
  /\ now < MaxOps
  /\ \E policy_id \in {"p1", "p9"} :
       StoreCall([op |-> "register_verification", policy_id |-> policy_id, token |-> Tick],
                 PolicyStore_register_verification(policies, policy_id, Tick, Tick))

JobUpsert ==
  /\ now < MaxOps
  /\ \E body \in {b \in JobEventInputs : b.submitted_at = 1 /\ b.started_at # None} :
       /\ now' = Tick
       /\ request' = [op |-> "upsert"] @@ body
       /\ jobs' = JobStore_upsert(jobs, body.job_id, body.workload, body.policy_id,
                                  body.status, body.submitted_at, body.started_at,
                                  body.finished_at, body.metrics, body.tags, body.notes)
       /\ job_file' = JobStore_save(jobs')
       /\ response' = [status |-> "ok"]
       /\ written' = [k \in DOMAIN written \cup {body.job_id} |->
                        IF k = body.job_id THEN JobStore_get(jobs', k)[1] ELSE written[k]]
       /\ UNCHANGED <<policies, policy_file>>
       /\ ThreadsUnchanged

InitStores == Init

NextStores ==
  \/ PolicyCreate
  \/ PolicyAddRun
  \/ PolicyUpdateMetadata
  \/ PolicyRegisterVerification
  \/ JobUpsert

SpecStores == InitStores /\ [][NextStores]_vars

-----------------------------------------------------------------------------
(* C12 *)

IsPrefix(a, b) == Len(a) <= Len(b) /\ SubSeq(b, 1, Len(a)) = a

\* C12: for every policy id and any sequence of Policy Store operations and of
\* create and verify requests, the history of the policy in an earlier state is a
\* prefix of its history in every later state, also when a create request names
\* an id that exists.
C12_HistoryAppendOnly ==
  [][ \A i \in DOMAIN policies :
        LET after == PolicyStore_get(policies', policies[i].id)
        IN  /\ after # None
            /\ IsPrefix(policies[i].history, after[1].history) ]_vars

-----------------------------------------------------------------------------
(* C13 *)

\* C13: a create request that supplies a policy_id already in the Policy Store
\* fails and leaves the record of that id unchanged; no two records of the store
\* share an id.
C13_DuplicateCreateFails ==
  [][ /\ ( /\ request'.op = "policies_create"
           /\ request'.policy_id # None
           /\ PolicyStore_get(policies, request'.policy_id[1]) # None )
         => /\ response'.status = "error"
            /\ PolicyStore_get(policies', request'.policy_id[1])
                 = PolicyStore_get(policies, request'.policy_id[1])
      /\ \A a \in DOMAIN policies', b \in DOMAIN policies' :
           policies'[a].id = policies'[b].id => a = b ]_vars

-----------------------------------------------------------------------------
(* C14 *)

\* C14: add_run on an existing policy appends exactly one PolicyRun at the end
\* of history, sets kpis[k] = v for every (k, v) supplied, keeps every other kpi
\* and changes no other policy; on an absent policy_id it fails with NotFound
\* and leaves store and file unchanged; the request with an empty kpis map is
\* rejected with status 400 and changes nothing.
C14_AddRun ==
  [][ request'.op = "policies_add_run" =>
        LET id == request'.policy_id
            kpis == request'.kpis
            at == PolicyIndex(policies, id)
        IN  /\ kpis = EmptyDict =>
                 /\ response' = HTTPException(400)
                 /\ policies' = policies /\ policy_file' = policy_file
            /\ (kpis # EmptyDict /\ at = 0) =>
                 /\ response' = HTTPException(404)
                 /\ policies' = policies /\ policy_file' = policy_file
            /\ (kpis # EmptyDict /\ at # 0) =>
                 LET before == policies[at]
                     after == policies'[at]
                 IN  /\ response'.status = "ok"
                     /\ Len(policies') = Len(policies)
                     /\ \A j \in DOMAIN policies : j # at => policies'[j] = policies[j]
                     /\ after.id = id
                     /\ Len(after.history) = Len(before.history) + 1
                     /\ IsPrefix(before.history, after.history)
                     /\ after.history[Len(after.history)].kpis = kpis
                     /\ after.history[Len(after.history)].workload_label
                          = request'.workload_label
                     /\ after.history[Len(after.history)].notes = request'.notes
                     /\ DOMAIN after.kpis = DOMAIN before.kpis \cup DOMAIN kpis
                     /\ \A k \in DOMAIN kpis : after.kpis[k] = kpis[k]
                     /\ \A k \in DOMAIN before.kpis \ DOMAIN kpis :
                          after.kpis[k] = before.kpis[k] ]_vars

\* a second run overwrote the latency of the first and left its cost alone
C14_Witness ==
  /\ request.op = "policies_add_run"
  /\ response.status = "ok"
  /\ DOMAIN request.kpis = {"latency"}
  /\ LET record == PolicyStore_get(policies, request.policy_id)[1]
     IN  /\ Len(record.history) = 2
         /\ DOMAIN record.kpis = {"latency", "cost"}
         /\ record.history[1].kpis["latency"] # record.kpis["latency"]

-----------------------------------------------------------------------------
(* C15 *)

\* C15: update_metadata replaces wholesale exactly those of guardrails,
\* embedding and notes that are supplied and leaves every field not supplied, as
\* well as id, name, description, intent, target_workloads, kpis, history,
\* created_at, last_verified_at and last_activation_token, and every other
\* record unchanged; on an absent policy_id it fails with NotFound and changes
\* nothing.
C15_UpdateMetadata ==
  [][ request'.op = "update_metadata" =>
        LET at == PolicyIndex(policies, request'.policy_id)
        IN  /\ at = 0 =>
                 /\ response'.status = "KeyError"
                 /\ policies' = policies /\ policy_file' = policy_file
            /\ at # 0 =>
                 LET before == policies[at]
                     after == policies'[at]
                     Kept(field) == after[field] = before[field]
                     Replaced(field) ==
                       IF request'[field] # None THEN after[field] = request'[field][1]
                       ELSE Kept(field)
                 IN  /\ response'.status = "ok"
                     /\ Len(policies') = Len(policies)
                     /\ \A j \in DOMAIN policies : j # at => policies'[j] = policies[j]
                     /\ \A field \in {"guardrails", "embedding", "notes"} : Replaced(field)
                     /\ \A field \in {"id", "name", "description", "intent",
                                      "target_workloads", "kpis", "history", "created_at",
                                      "last_verified_at", "last_activation_token"} :
                          Kept(field) ]_vars

\* the guardrails of a verified policy with a run were replaced by the empty
\* list, its notes left alone
C15_Witness ==
  /\ request.op = "update_metadata"
  /\ response.status = "ok"
  /\ request.guardrails = Some(<<>>)
  /\ request.notes = None
  /\ LET record == PolicyStore_get(policies, request.policy_id)[1]
     IN  /\ record.guardrails = <<>>
         /\ record.history # <<>>
         /\ record.last_verified_at # None

-----------------------------------------------------------------------------
(* C17 *)

\* C17: for both stores, whenever a mutating operation has returned
\* successfully the persisted document holds exactly the records of the
\* in-memory map, so that a store constructed from the file holds the same
\* records.
C17_Durable ==
  (request.op # "none" /\ response.status = "ok") =>
    /\ PolicyStore_load(policy_file, now) = policies
    /\ JobStore_load(job_file, now) = jobs
    /\ Len(policy_file) = Len(policies)
    /\ Len(job_file) = Len(jobs)

\* a job was recorded while the Policy Store held a verified policy with a run
\* and a policy made by a request
C17_Witness ==
  /\ request.op = "upsert"
  /\ response.status = "ok"
  /\ jobs # <<>>
  /\ Len(policies) = 3
  /\ \E i \in DOMAIN policies :
       policies[i].last_verified_at # None \/ policies[i].history # <<>>

-----------------------------------------------------------------------------
(* Construction of the Policy Store from a persisted document and a seed file *)

MaxSeeds == 2       \* entries of the seed file
MaxPersisted == 2   \* records of the persisted document
MaxStarts == 2      \* constructions

SeedEntries ==
  {SeedPolicies[1], SeedPolicies[2],
   [id |-> "p1", name |-> "latency-v2", target_workloads |-> <<"web", "batch">>,
    guardrails |-> <<>>, created_at |-> isoformat(0)]}

SeedFiles == SeqsUpTo(SeedEntries, MaxSeeds)

\* records a store has written: a policy p1 that was verified and has a run, a
\* seeded p2, a policy p3 made by a request
PersistedRecords ==
  {[PolicyRecord("p1", "tuned", <<"web">>, <<G_cpu_util_le_80>>, <<>>,
                 [k \in {"latency"} |-> Float(41)], <<"dry run">>, 0)
      EXCEPT !.history = <<PolicyRun(0, Some("web"), [k \in {"latency"} |-> Float(41)], None)>>,
             !.last_verified_at = Some(0), !.last_activation_token = Some(0)],
   SeedRecord(SeedPolicies[2], 0),
   PolicyRecord("p3", "custom", <<"web">>, <<>>, <<Float(1)>>, EmptyDict, <<>>, 0)}

PersistedFiles ==
  {PolicyStore_save(store) :
     store \in {q \in SeqsUpTo(PersistedRecords, MaxPersisted) :
                  \A a \in DOMAIN q, b \in DOMAIN q : q[a].id = q[b].id => a = b}}

InitSeed ==
  /\ policy_file \in PersistedFiles
  /\ request \in {[op |-> "none", seeds |-> seeds] : seeds \in SeedFiles}
  /\ policies = <<>>
  /\ jobs = <<>>
  /\ job_file = <<>>
  /\ now = 0
  /\ response = NoResponse
  /\ written = <<>>
  /\ JOB_STATE = <<>>
  /\ NoThreads

\* the process starts: POLICIES = PolicyStore(POLICY_STORE_PATH, seeds_path=...)
Construct ==
  /\ now < MaxStarts
  /\ LET made == PolicyStore_init(policy_file, request.seeds, Tick)
     IN  /\ policies' = made.policies
         /\ policy_file' = IF made.writes # <<>> THEN made.writes[Len(made.writes)]
                           ELSE policy_file
         /\ response' = [status |-> "ok", writes |-> Len(made.writes)]
  /\ request' = [op |-> "PolicyStore", seeds |-> request.seeds]
  /\ now' = Tick
  /\ UNCHANGED <<jobs, job_file, written, JOB_STATE>>
  /\ ThreadsUnchanged

NextSeed == Construct

SpecSeed == InitSeed /\ [][NextSeed]_vars

-----------------------------------------------------------------------------
(* C16 *)

\* C16: after construction every id of the seed file is in the store; a record
\* persisted under a seed's id keeps its persisted contents; when a seed was
\* inserted the file holds the insertions, written by a single persist; and
\* constructing the store again from the same files changes nothing.
C16_Seeding ==
  [][ request'.op = "PolicyStore" =>
        LET seeds == request'.seeds
            persisted(id) == \E k \in DOMAIN policy_file : policy_file[k].id = id
            inserted == {seeds[i].id : i \in {j \in DOMAIN seeds : ~persisted(seeds[j].id)}}
        IN  /\ \A i \in DOMAIN seeds : PolicyStore_get(policies', seeds[i].id) # None
            /\ \A k \in DOMAIN policy_file :
                 LET kept == PolicyStore_get(policies', policy_file[k].id)
                 IN  kept # None /\ PolicyRecord_to_dict(kept[1]) = policy_file[k]
            /\ Len(policies') = Len(policy_file) + Cardinality(inserted)
            /\ inserted # {} =>
                 /\ response'.writes = 1
                 /\ Len(policy_file') = Len(policies')
                 /\ \A id \in inserted : \E k \in DOMAIN policy_file' : policy_file'[k].id = id
                 /\ \A k \in DOMAIN policy_file : policy_file'[k] = policy_file[k]
            /\ inserted = {} => (response'.writes = 0 /\ policy_file' = policy_file)
            /\ request.op = "PolicyStore" =>
                 (policies' = policies /\ policy_file' = policy_file) ]_vars

\* the store came up a second time: the persisted p1 is still not the p1 of the
\* seed file, and the seed p2 that the first construction inserted is on file
C16_Witness ==
  /\ request.op = "PolicyStore"
  /\ now = 2
  /\ response.writes = 0
  /\ \E i \in DOMAIN request.seeds :
       /\ request.seeds[i].id = "p1"
       /\ PolicyStore_get(policies, "p1")[1].name # request.seeds[i].name
  /\ \E i \in DOMAIN request.seeds : request.seeds[i].id = "p2"
  /\ \E k \in DOMAIN policy_file : policy_file[k].id = "p2" /\ policy_file[k].created_at = isoformat(1)

-----------------------------------------------------------------------------
(* The stores under several threads.  Each thread makes one call; a call runs
   statement by statement, _save included: the payload is built, the temporary
   file is opened (and so emptied), the entries are dumped one at a time, the
   file is closed and then renamed over the canonical one. *)

MaxThreads == 2     \* threads calling the stores

Threads == 1..MaxThreads

\* the metric the add_run of a thread reports, and the job its record writes
ThreadKey(th) == <<"energy", "cost", "jitter", "drops">>[th]

ThreadJob(th) == <<"j1", "j2", "j3", "j4">>[th]

\* the calls a thread can make: PolicyStore.add_run, JobStore.record, and
\* PolicyStore.get followed by the serialisation of the record it returned
ThreadCalls(th) ==
  {[op |-> "add_run", store |-> "policy", arg |-> [k \in {ThreadKey(th)} |-> Float(th)]],
   [op |-> "record", store |-> "job",
    arg |-> JobRun(ThreadJob(th), "web", Some("p1"), "running", 0, None, None, EmptyDict, <<>>, None)],
   [op |-> "get", store |-> "policy", arg |-> <<>>]}

\* a thread before its call.  before is the canonical document when the call
\* took the lock, payload the document its _save is writing, dumped the entries
\* written so far, seen what a reader has read from the record it holds.
ThreadStart(call) ==
  [call |-> call, pc |-> "idle", before |-> <<>>, payload |-> <<>>, dumped |-> 0,
   seen |-> [kpis |-> EmptyDict, history |-> <<>>]]

\* threading.Lock: the holder, 0 when free.  mutant: a lock that never blocks
Lock_locked_never(holder) == FALSE

Lock_locked(holder) == holder # 0

\* self._path of a store, and the temporary path of _save
path(store) == <<store>>

\* mutant: _save writes the canonical file in place
tmp_path_in_place(p) == p

tmp_path(p) == p \o <<"tmp">>

\* what the end of a file that is still being written looks like to a reader
Truncated == [truncated |-> TRUE]

Partial(entries) == Append(entries, Truncated)

\* json.load accepts the document
Complete(document) == \A i \in DOMAIN document : document[i] # Truncated

ReadFile(p) ==
  IF Len(p) = 2 THEN tmp_files[p[1]]
  ELSE IF p = path("policy") THEN policy_file ELSE job_file

WriteFile(p, document) ==
  /\ policy_file' = IF p = path("policy") THEN document ELSE policy_file
  /\ job_file' = IF p = path("job") THEN document ELSE job_file
  /\ tmp_files' = IF Len(p) = 2 THEN [tmp_files EXCEPT ![p[1]] = document] ELSE tmp_files

\* os.replace(src, dst): dst takes the contents of src in one step and src is gone
os_replace(src, dst) ==
  /\ policy_file' = IF dst = path("policy") THEN ReadFile(src) ELSE policy_file
  /\ job_file' = IF dst = path("job") THEN ReadFile(src) ELSE job_file
  /\ tmp_files' = IF Len(src) = 2 /\ src # dst THEN [tmp_files EXCEPT ![src[1]] = <<>>]
                  ELSE tmp_files

FilesUnchanged == UNCHANGED <<policy_file, job_file, tmp_files, JOB_STATE>>

\* the thread moves to pc, its other locals as given
Goto(th, pc, locals) == threads' = [threads EXCEPT ![th] = [locals EXCEPT !.pc = pc]]

\* with self._lock: a mutating call enters when the lock is free
Acquire(th) ==
  LET me == threads[th] IN
  /\ me.pc = "idle"
  /\ me.call.op \in {"add_run", "record"}
  /\ ~Lock_locked(locks[me.call.store])
  /\ locks' = [locks EXCEPT ![me.call.store] = th]
  /\ Goto(th, IF me.call.op = "add_run" THEN "append" ELSE "set",
          [me EXCEPT !.before = ReadFile(path(me.call.store))])
  /\ FilesUnchanged
  /\ UNCHANGED <<policies, jobs, now, request, response, written, JOB_STATE>>

\* add_run: record = self._policies.get(policy_id); the KeyError leaves the with
\* block; record.history.append(PolicyRun(timestamp=_utc_now(), ...))
AddRunAppend(th) ==
  LET me == threads[th]
      i == PolicyIndex(policies, "p1")
  IN
  /\ me.pc = "append"
  /\ IF i = 0
     THEN /\ Goto(th, "release", me)
          /\ UNCHANGED <<policies, now>>
     ELSE /\ now' = Tick
          /\ policies' = [policies EXCEPT ![i].history =
                            Append(@, PolicyRun(Tick, None, me.call.arg, None))]
          /\ Goto(th, "merge", me)
  /\ FilesUnchanged
  /\ UNCHANGED <<jobs, locks, request, response, written, JOB_STATE>>

\* add_run: for key, value in kpis.items(): record.kpis[key] = value
AddRunMerge(th) ==
  LET me == threads[th]
      i == PolicyIndex(policies, "p1")
      kpis == me.call.arg
  IN
  /\ me.pc = "merge"
  /\ policies' = [policies EXCEPT ![i].kpis =
                    [k \in DOMAIN @ \cup DOMAIN kpis |->
                       IF k \in DOMAIN kpis THEN kpis[k] ELSE @[k]]]
  /\ Goto(th, "stamp", me)
  /\ FilesUnchanged
  /\ UNCHANGED <<jobs, now, locks, request, response, written, JOB_STATE>>

\* add_run: record.updated_at = _utc_now()
AddRunStamp(th) ==
  LET me == threads[th]
      i == PolicyIndex(policies, "p1")
  IN
  /\ me.pc = "stamp"
  /\ policies' = [policies EXCEPT ![i].updated_at = now]
  /\ Goto(th, "payload", me)
  /\ FilesUnchanged
  /\ UNCHANGED <<jobs, now, locks, request, response, written, JOB_STATE>>

\* record: self._jobs[job.job_id] = job
RecordSet(th) ==
  LET me == threads[th] IN
  /\ me.pc = "set"
  /\ jobs' = JobStore_record(jobs, me.call.arg)
  /\ Goto(th, "payload", me)
  /\ FilesUnchanged
  /\ UNCHANGED <<policies, now, locks, request, response, written, JOB_STATE>>

\* _save: payload = {...: [record.to_dict() for record in ...values()]}
SavePayload(th) ==
  LET me == threads[th] IN
  /\ me.pc = "payload"
  /\ Goto(th, "open",
          [me EXCEPT !.payload = IF me.call.store = "policy" THEN PolicyStore_save(policies)
                                 ELSE JobStore_save(jobs),
                     !.dumped = 0])
  /\ FilesUnchanged
  /\ UNCHANGED <<policies, jobs, now, locks, request, response, written, JOB_STATE>>

\* _save: open(tmp_path, "w") leaves an empty file
SaveOpen(th) ==
  LET me == threads[th] IN
  /\ me.pc = "open"
  /\ WriteFile(tmp_path(path(me.call.store)), Partial(<<>>))
  /\ Goto(th, "dump", me)
  /\ UNCHANGED <<policies, jobs, now, locks, request, response, written, JOB_STATE>>

\* _save: json.dump writes the next entry
SaveDump(th) ==
  LET me == threads[th] IN
  /\ me.pc = "dump"
  /\ me.dumped < Len(me.payload)
  /\ WriteFile(tmp_path(path(me.call.store)), Partial(SubSeq(me.payload, 1, me.dumped + 1)))
  /\ Goto(th, "dump", [me EXCEPT !.dumped = @ + 1])
  /\ UNCHANGED <<policies, jobs, now, locks, request, response, written, JOB_STATE>>

\* _save: the with block closes the file after the last entry
SaveClose(th) ==
  LET me == threads[th] IN
  /\ me.pc = "dump"
  /\ me.dumped = Len(me.payload)
  /\ WriteFile(tmp_path(path(me.call.store)), me.payload)
  /\ Goto(th, "replace", me)
  /\ UNCHANGED <<policies, jobs, now, locks, request, response, written, JOB_STATE>>

\* _save: os.replace(tmp_path, self._path)
SaveReplace(th) ==
  LET me == threads[th] IN
  /\ me.pc = "replace"
  /\ os_replace(tmp_path(path(me.call.store)), path(me.call.store))
  /\ Goto(th, "release", me)
  /\ UNCHANGED <<policies, jobs, now, locks, request, response, written, JOB_STATE>>

\* the with block ends: the lock is released and the call returns
Release(th) ==
  LET me == threads[th] IN
  /\ me.pc = "release"
  /\ locks' = [locks EXCEPT ![me.call.store] = 0]
  /\ Goto(th, "done", me)
  /\ FilesUnchanged
  /\ UNCHANGED <<policies, jobs, now, request, response, written, JOB_STATE>>

\* get: with self._lock: return self._policies.get(policy_id); the caller holds
\* the record of the store itself, and gives up when there is none
ReaderGet(th) ==
  LET me == threads[th] IN
  /\ me.pc = "idle"
  /\ me.call.op = "get"
  /\ ~Lock_locked(locks[me.call.store])
  /\ Goto(th, IF PolicyStore_get(policies, "p1") = None THEN "done" ELSE "kpis", me)
  /\ FilesUnchanged
  /\ UNCHANGED <<policies, jobs, now, locks, request, response, written, JOB_STATE>>

\* record.to_dict(): "kpis": dict(self.kpis)
ReaderKpis(th) ==
  LET me == threads[th] IN
  /\ me.pc = "kpis"
  /\ Goto(th, "history", [me EXCEPT !.seen.kpis = policies[PolicyIndex(policies, "p1")].kpis])
  /\ FilesUnchanged
  /\ UNCHANGED <<policies, jobs, now, locks, request, response, written, JOB_STATE>>

\* record.to_dict(): "history": [run.to_dict() for run in self.history]
ReaderHistory(th) ==
  LET me == threads[th] IN
  /\ me.pc = "history"
  /\ Goto(th, "done", [me EXCEPT !.seen.history = policies[PolicyIndex(policies, "p1")].history])
  /\ FilesUnchanged
  /\ UNCHANGED <<policies, jobs, now, locks, request, response, written, JOB_STATE>>

\* the store the threads share: the seeds, persisted by the constructor
ThreadsPolicies == PolicyStore_init(<<>>, SeedPolicies, 0).policies

InitThreads ==
  /\ policies = ThreadsPolicies
  /\ policy_file = PolicyStore_save(policies)
  /\ jobs = <<>>
  /\ job_file = <<>>
  /\ now = 0
  /\ request = NoRequest
  /\ response = NoResponse
  /\ written = <<>>
  /\ JOB_STATE = <<>>
  /\ threads \in {f \in [Threads -> UNION {{ThreadStart(c) : c \in ThreadCalls(th)} : th \in Threads}] :
                    \A th \in Threads : f[th].call \in ThreadCalls(th)}
  /\ locks = [policy |-> 0, job |-> 0]
  /\ tmp_files = [policy |-> <<>>, job |-> <<>>]

NextThreads ==
  \E th \in Threads :
    \/ Acquire(th)
    \/ AddRunAppend(th)
    \/ AddRunMerge(th)
    \/ AddRunStamp(th)
    \/ RecordSet(th)
    \/ SavePayload(th)
    \/ SaveOpen(th)
    \/ SaveDump(th)
    \/ SaveClose(th)
    \/ SaveReplace(th)
    \/ Release(th)
    \/ ReaderGet(th)
    \/ ReaderKpis(th)
    \/ ReaderHistory(th)

SpecThreads == InitThreads /\ [][NextThreads]_vars

-----------------------------------------------------------------------------
(* C19, C20 *)

\* the positions of a call at which the thread is inside the with block
Critical ==
  {"append", "merge", "stamp", "set", "payload", "open", "dump", "replace", "release"}

AllDone == \A th \in Threads : threads[th].pc = "done"

\* the orders in which the calls of the threads can be made one after another
SerialOrders == {f \in [Threads -> Threads] : \A a \in Threads, b \in Threads : f[a] = f[b] => a = b}

\* the policy store after the calls from the i-th of the order on, made one at a
\* time; t is the clock, which only add_run reads
RECURSIVE SerialPolicies(_, _, _, _)
SerialPolicies(store, order, i, t) ==
  IF i > MaxThreads THEN store
  ELSE IF threads[order[i]].call.op = "add_run"
       THEN SerialPolicies(PolicyStore_add_run(store, "p1", None, threads[order[i]].call.arg, None, t + 1).store,
                           order, i + 1, t + 1)
       ELSE SerialPolicies(store, order, i + 1, t)

\* the job store after the calls from the i-th of the order on, one at a time
RECURSIVE SerialJobs(_, _, _)
SerialJobs(store, order, i) ==
  IF i > MaxThreads THEN store
  ELSE IF threads[order[i]].call.op = "record"
       THEN SerialJobs(JobStore_record(store, threads[order[i]].call.arg), order, i + 1)
       ELSE SerialJobs(store, order, i + 1)

\* C19: mutating calls on one store never interleave: a thread inside a call
\* holds the lock of its store from the first statement to the replace of the
\* file; when all calls have returned, the stores are what some serial order of
\* the calls leaves, the files hold them, every add_run has added one history
\* entry and every recorded job is in memory and on file.
C19_Serial ==
  /\ \A th \in Threads :
       threads[th].pc \in Critical => locks[threads[th].call.store] = th
  /\ AllDone =>
       /\ \E order \in SerialOrders :
            /\ policies = SerialPolicies(ThreadsPolicies, order, 1, 0)
            /\ jobs = SerialJobs(<<>>, order, 1)
       /\ policy_file = PolicyStore_save(policies)
       /\ job_file = JobStore_save(jobs)
       /\ Len(PolicyStore_get(policies, "p1")[1].history)
            = Cardinality({th \in Threads : threads[th].call.op = "add_run"})
       /\ \A th \in Threads :
            threads[th].call.op = "record" =>
              /\ JobStore_get(jobs, ThreadJob(th)) = Some(threads[th].call.arg)
              /\ \E k \in DOMAIN job_file : job_file[k] = JobRun_to_dict(threads[th].call.arg)

\* two add_run calls on p1 have returned, one after the other's entry
C19_Witness ==
  /\ AllDone
  /\ \A th \in Threads : threads[th].call.op = "add_run"
  /\ Len(policies[PolicyIndex(policies, "p1")].history) = MaxThreads
  /\ DOMAIN policies[PolicyIndex(policies, "p1")].history[1].kpis = {ThreadKey(2)}

\* C20: a reader sees a record wholly before or wholly after a mutation: what a
\* caller of get() has read of p1 never has the run of an add_run in its history
\* without the metric of that run in its kpis, nor the metric without the run.
C20_NoPartialRead ==
  \A th \in Threads :
    (threads[th].call.op = "get" /\ threads[th].pc = "done") =>
      \A w \in Threads :
        ThreadKey(w) \in DOMAIN threads[th].seen.kpis
          <=> \E r \in DOMAIN threads[th].seen.history :
                ThreadKey(w) \in DOMAIN threads[th].seen.history[r].kpis

-----------------------------------------------------------------------------
(* The process dies at any step and is started again *)

\* the process is killed: the threads and the locks are gone, the files stay as
\* they are.  It starts again: app.py constructs both stores from the canonical
\* files; a document json.load rejects leaves the constructor with an exception.
CrashAndRestart ==
  /\ request.op # "restart"
  /\ now' = Tick
  /\ request' = [op |-> "restart"]
  /\ threads' = [th \in Threads |-> [threads[th] EXCEPT !.pc = "crashed"]]
  /\ locks' = [policy |-> 0, job |-> 0]
  /\ IF Complete(policy_file) /\ Complete(job_file)
     THEN LET made == PolicyStore_init(policy_file, SeedPolicies, Tick)
          IN  /\ policies' = made.policies
              /\ policy_file' = IF made.writes # <<>> THEN made.writes[Len(made.writes)]
                                ELSE policy_file
              /\ jobs' = JobStore_load(job_file, Tick)
              /\ response' = [status |-> "ok"]
     ELSE /\ policies' = <<>>
          /\ jobs' = <<>>
          /\ policy_file' = policy_file
          /\ response' = [status |-> "JSONDecodeError"]
  /\ UNCHANGED <<job_file, tmp_files, written, JOB_STATE>>

NextCrash == NextThreads \/ CrashAndRestart

SpecCrash == InitThreads /\ [][NextCrash]_vars

-----------------------------------------------------------------------------
(* C18 *)

\* C18: whatever step of _save the process dies at, the canonical file of a
\* store holds a complete document: the one that was there when the call began
\* until the rename, the new one after it; and the store that is started again
\* loads the contents of one of the two.
C18_CrashSafe ==
  [][ /\ Complete(policy_file') /\ Complete(job_file')
      /\ \A th \in Threads :
           LET me == threads'[th]
               canonical == IF me.call.store = "policy" THEN policy_file' ELSE job_file'
               memory == IF me.call.store = "policy" THEN PolicyStore_save(policies')
                         ELSE JobStore_save(jobs')
           IN  me.pc \in Critical =>
                 IF me.pc = "release" THEN canonical = me.payload /\ canonical = memory
                 ELSE canonical = me.before
      /\ (request'.op = "restart" /\ request.op # "restart") =>
           /\ response'.status = "ok"
           /\ policy_file' = policy_file /\ job_file' = job_file
           /\ PolicyStore_save(policies') = policy_file
           /\ JobStore_save(jobs') = job_file
           /\ \A th \in Threads :
                threads[th].pc \in Critical =>
                  IF threads[th].call.store = "policy"
                  THEN policies' \in {PolicyStore_load(threads[th].before, now'),
                                      PolicyStore_load(threads[th].payload, now')}
                  ELSE jobs' \in {JobStore_load(threads[th].before, now'),
                                  JobStore_load(threads[th].payload, now')} ]_vars

\* the process died while an add_run was dumping its payload: the temporary
\* file is cut short, and the store that came up has p1 without the run
C18_Witness ==
  /\ request.op = "restart"
  /\ response.status = "ok"
  /\ ~Complete(tmp_files["policy"])
  /\ Len(tmp_files["policy"]) = 2
  /\ \E th \in Threads : threads[th].call.op = "add_run" /\ threads[th].payload # <<>>
  /\ PolicyStore_get(policies, "p1")[1].history = <<>>

-----------------------------------------------------------------------------
(* The workload profile: POST /workloads/profile and the profile behind
   POST /scheduler/assign, over a Job Store that lifecycle events fill *)

\* job events naming a policy of the store, a policy the store does not hold,
\* the empty id, and no policy
ProfileJobInputs ==
  {[job_id |-> job_id, workload |-> "web", policy_id |-> policy_id, status |-> status,
    submitted_at |-> 1, started_at |-> Some(1), finished_at |-> None,
    metrics |-> EmptyDict, tags |-> <<>>, notes |-> None] :
     job_id \in {"j1", "j2"}, policy_id \in {None, Some(""), Some("p1"), Some("ghost")},
     status \in {"running", "failed"}}

\* rows of the CPU query: none, nothing that parses, nothing finite, an infinite
\* sample beside a finite one, a scalar on the default bound, just below it,
\* just above it, and two samples that average to it
CpuRows ==
  {<<>>, <<[value |-> None]>>, <<Sample(NaN)>>, <<Sample(Inf), Sample(Float(90))>>,
   <<Sample(Float(80))>>, <<Sample(Exact(79996))>>, <<Sample(Exact(80004))>>,
   <<Sample(Float(70)), Sample(Float(90))>>}

ContainerRows ==
  <<[metric |-> [container |-> <<"w", "e", "b">>, id |-> <<>>, instance |-> Some("n1")],
     value |-> Some(Float(2))],
    [metric |-> [container |-> <<>>, id |-> <<<<"d", "o", "c", "k", "e", "r">>, <<"a", "b", "c">>>>,
                 instance |-> None],
     value |-> Some(NaN)]>>

\* Prometheus answering every query; the load is far above every bound
ProfileTelemetry(cpu, mem, disk) ==
  <<Answer(cpu), Answer(<<Sample(mem)>>), Answer(<<Sample(Float(95))>>),
    Answer(<<Sample(disk)>>), Answer(ContainerRows), Answer(ContainerRows)>>

\* the k-th query fails: the request at odd k, the status of the answer at even
\* k; the later queries would fail the other way
FailingTelemetry(k) ==
  [i \in 1..6 |->
     IF i < k THEN Answer(<<Sample(Float(50))>>)
     ELSE IF (i - k) % 2 = 0
          THEN [transport |-> (k % 2 = 0), status |-> "error", result |-> <<>>]
          ELSE [transport |-> (k % 2 = 1), status |-> "error", result |-> <<>>]]

\* a request with its own bounds, the CPU bound finer than a hundredth
FineProfileRequest ==
  WorkloadProfileRequest(WINDOW, TOP_CONTAINERS, Exact(80004), Float(50), NaN, FALSE)

ProfileInputs ==
  {<<req, ProfileTelemetry(cpu, pair[1], pair[2])>> :
     req \in {DefaultProfileRequest(WINDOW), FineProfileRequest}, cpu \in CpuRows,
     pair \in {<<Float(50), Float(85)>>, <<Float(80), NaN>>}}
  \cup
  {<<req, FailingTelemetry(k)>> :
     req \in {DefaultProfileRequest(WINDOW), FineProfileRequest}, k \in 1..6}

ProfileAssignInputs ==
  {<<ScheduleBatchRequest(<<Descriptor("j1", "web"), Descriptor("j3", "batch")>>, <<>>, record),
     telemetry>> :
     record \in BOOLEAN,
     telemetry \in {Telemetry(Float(50), Float(50)), Telemetry(NaN, Float(90)),
                    FailingTelemetry(1), FailingTelemetry(4), FailingTelemetry(6)}}

ProfileJobsRecord ==
  /\ now < MaxClock
  /\ \E body \in ProfileJobInputs :
       Handled([op |-> "jobs_record"] @@ body, jobs_record(policies, jobs, body))

\* queries: how many queries Prometheus received
WorkloadsProfile ==
  /\ now < MaxClock
  /\ \E in \in ProfileInputs :
       Handled([op |-> "workloads_profile", body |-> in[1], telemetry |-> in[2],
                queries |-> build_workload_profile(policies, jobs, in[1], in[2]).queries],
               workloads_profile(policies, jobs, in[1], in[2]))

NextProfile ==
  \/ ProfileJobsRecord
  \/ WorkloadsProfile
  \/ SchedulerAssign(ProfileAssignInputs)

SpecProfile == Init /\ [][NextProfile]_vars

-----------------------------------------------------------------------------
(* C22, C23, C24, C25 *)

\* the profile an answer carries, None when it carries none
ProfileOf(answer) ==
  IF answer.status # "ok" THEN None
  ELSE IF "profile" \in DOMAIN answer THEN Some(answer.profile)
  ELSE IF "workload_profile" \in DOMAIN answer THEN Some(answer.workload_profile)
  ELSE None

\* the bounds a profile was built with
HotOf(req) ==
  IF req.op = "workloads_profile"
  THEN (CPU_UTIL :> req.body.cpu_hot_pct @@ MEM :> req.body.mem_hot_pct
          @@ DISK_USED :> req.body.disk_hot_pct)
  ELSE (CPU_UTIL :> Float(80) @@ MEM :> Float(80) @@ DISK_USED :> Float(85))

\* C22: a non-finite cluster scalar is no signal: it is in no contention signal,
\* it is no entry of the cluster_metrics map of a profile, and scheduler_assign
\* hands no such entry to the scoring, so that no penalty rests on one.
C22_NonFiniteIsNoSignal ==
  ProfileOf(response) # None =>
    LET profile == ProfileOf(response)[1] IN
    /\ \A k \in DOMAIN profile.cluster_metrics : isfinite(profile.cluster_metrics[k])
    /\ \A i \in DOMAIN profile.contention_signals :
         isfinite(profile.contention_signals[i].observed_value)
    /\ request.op = "scheduler_assign" =>
         \A i \in DOMAIN response.guardrail_penalties :
           isfinite(response.guardrail_penalties[i].actual)

\* the metrics a profile has a contention signal for
Signalled(profile) ==
  {profile.contention_signals[i].metric : i \in DOMAIN profile.contention_signals}

\* each of the three percentages has a signal iff it is finite and has reached
\* its bound, the signal carries that bound, and the load has none
SignalsAsBounds(profile, hot) ==
  /\ Signalled(profile) =
       {m \in {CPU_UTIL, MEM, DISK_USED} :
          /\ isfinite(profile.cluster_metrics[m])
          /\ isfinite(hot[m])
          /\ profile.cluster_metrics[m].val >= hot[m].val}
  /\ \A i \in DOMAIN profile.contention_signals, j \in DOMAIN profile.contention_signals :
       profile.contention_signals[i].metric = profile.contention_signals[j].metric => i = j
  /\ \A i \in DOMAIN profile.contention_signals :
       profile.contention_signals[i].threshold = hot[profile.contention_signals[i].metric]

\* C23 as claimed: a contention signal for CPU, memory and disk iff the scalar is
\* finite and >= its bound (80, 80, 85 by default), none for the load, and every
\* signal reports an observed value >= the threshold it reports.
C23_Original ==
  ProfileOf(response) # None =>
    LET profile == ProfileOf(response)[1] IN
    /\ SignalsAsBounds(profile, HotOf(request))
    /\ \A i \in DOMAIN profile.contention_signals :
         profile.contention_signals[i].observed_value.val
           >= profile.contention_signals[i].threshold.val

\* C23 amended: as claimed, except that it is the scalar itself that is >= the
\* reported threshold; the reported observed value is the scalar rounded to two
\* decimals, and falls short of the threshold by 0.005 at most.
C23_Amended ==
  ProfileOf(response) # None =>
    LET profile == ProfileOf(response)[1] IN
    /\ SignalsAsBounds(profile, HotOf(request))
    /\ \A i \in DOMAIN profile.contention_signals :
         LET signal == profile.contention_signals[i]
             scalar == profile.cluster_metrics[signal.metric]
         IN  /\ scalar.val >= signal.threshold.val
             /\ signal.observed_value.val % 10 = 0
             /\ signal.observed_value.val - scalar.val \in -5..5
             /\ signal.observed_value.val >= signal.threshold.val - 5

\* a profile with its own bounds: the CPU scalar 80.004 on its bound is reported
\* as 80.0, and the memory on its bound is signalled too
C23_Witness ==
  /\ request.op = "workloads_profile"
  /\ ProfileOf(response) # None
  /\ Signalled(response.profile) = {CPU_UTIL, MEM}
  /\ response.profile.cluster_metrics[CPU_UTIL] = Exact(80004)
  /\ response.profile.contention_signals[1].observed_value = Float(80)
  /\ response.profile.contention_signals[1].threshold = Exact(80004)
  /\ response.profile.cluster_metrics[MEM] = Float(50)

\* the first query of a request that Prometheus fails, 0 when it fails none
FailedQuery(req) ==
  LET asked == IF req.op = "workloads_profile" /\ ~req.body.include_network THEN 5 ELSE 6
      bad == {i \in 1..asked :
                ~req.telemetry[i].transport \/ req.telemetry[i].status # "success"}
  IN  IF bad = {} THEN 0 ELSE CHOOSE i \in bad : \A j \in bad : i <= j

\* C24: when a query made for the workload profile fails or reports a status
\* other than success, the profile or assign request fails with the error of
\* that query and nothing else: no query is made after it, the answer holds no
\* profile and no policy, and neither store nor file changes.
C24_TelemetryFailureFails ==
  [][ (/\ request'.op \in {"workloads_profile", "scheduler_assign"}
       /\ request'.op = "scheduler_assign" => request'.jobs # <<>>
       /\ FailedQuery(request') # 0) =>
        /\ response' = HTTPException(IF request'.telemetry[FailedQuery(request')].transport
                                     THEN 500 ELSE 502)
        /\ request'.op = "workloads_profile" => request'.queries = FailedQuery(request')
        /\ policies' = policies /\ policy_file' = policy_file
        /\ jobs' = jobs /\ job_file' = job_file ]_vars

\* an assign request failed on its fourth query, which answered with an error
\* status, while the Job Store held records
C24_Witness ==
  /\ request.op = "scheduler_assign"
  /\ FailedQuery(request) = 4
  /\ response = HTTPException(500)
  /\ jobs # <<>>

\* C25: profiling and scoring only read the stores: a profile request changes
\* neither store, scheduler_assign never changes the Policy Store, and
\* scheduler_assign with record_assignments false leaves the Job Store as it is
\* and answers one simulated assignment per descriptor with the winner's id.
C25_ReadOnly ==
  [][ /\ request'.op = "workloads_profile" =>
           /\ policies' = policies /\ policy_file' = policy_file
           /\ jobs' = jobs /\ job_file' = job_file
      /\ request'.op = "scheduler_assign" =>
           /\ policies' = policies /\ policy_file' = policy_file
           /\ ~request'.record_assignments =>
                /\ jobs' = jobs /\ job_file' = job_file
                /\ response'.status = "ok" =>
                     /\ Len(response'.assignments) = Len(request'.jobs)
                     /\ \A i \in DOMAIN request'.jobs :
                          response'.assignments[i] =
                            [job_id |-> request'.jobs[i].job_id,
                             workload |-> request'.jobs[i].workload,
                             policy_id |-> response'.policy.id] ]_vars

\* a batch of two was assigned without recording while the Job Store held a
\* record of one of the two jobs
C25_Witness ==
  /\ request.op = "scheduler_assign"
  /\ ~request.record_assignments
  /\ response.status = "ok"
  /\ Len(response.assignments) = 2
  /\ JobStore_get(jobs, "j1") # None
  /\ JobStore_get(jobs, "j1")[1].status = "failed"
  /\ JobStore_get(jobs, "j3") = None

-----------------------------------------------------------------------------
(* C28, C29 *)

\* the records of the Job Store with a status, and with a policy id
WithStatus(status) == {i \in DOMAIN jobs : jobs[i].status = status}
WithPolicy(policy_id) == {i \in DOMAIN jobs : jobs[i].policy_id = Some(policy_id)}

\* counts maps exactly the keys of wanted, each once, to the size of its set
CountsAre(counts, wanted, Records(_)) ==
  /\ {counts[i].key : i \in DOMAIN counts} = wanted
  /\ \A i \in DOMAIN counts, j \in DOMAIN counts : counts[i].key = counts[j].key => i = j
  /\ \A i \in DOMAIN counts : counts[i].count = Cardinality(Records(counts[i].key))

\* a profile request answered from the Job Store as it is now
Profiled ==
  /\ request.op = "workloads_profile"
  /\ response.status = "ok"

StatusCountsRight ==
  /\ CountsAre(JobStore_status_counts(jobs), {jobs[i].status : i \in DOMAIN jobs}, WithStatus)
  /\ SumCounts(JobStore_status_counts(jobs)) = Len(jobs)
  /\ Profiled =>
       /\ response.profile.job_history.status_counts = JobStore_status_counts(jobs)
       /\ response.profile.job_history.total_runs = Len(jobs)

\* C28 as claimed: status_counts() maps each status to the number of records
\* with it, the counts sum to the number of records, which is the total_runs of
\* the profile; policy_usage() maps every policy_id some record carries to the
\* number of records carrying it, a record without policy_id counting nowhere.
C28_Original ==
  /\ StatusCountsRight
  /\ CountsAre(JobStore_policy_usage(jobs),
               {jobs[i].policy_id[1] : i \in {k \in DOMAIN jobs : jobs[k].policy_id # None}},
               WithPolicy)

\* C28 amended: as claimed, with policy_usage() counting the records whose
\* policy_id is neither absent nor the empty string.
C28_Amended ==
  /\ StatusCountsRight
  /\ CountsAre(JobStore_policy_usage(jobs),
               {jobs[i].policy_id[1] : i \in {k \in DOMAIN jobs : jobs[k].policy_id # None}}
                 \ {""},
               WithPolicy)

\* two failed jobs, one without policy and one with, were profiled
C28_Witness ==
  /\ Profiled
  /\ Len(jobs) = 2
  /\ WithStatus("failed") = {1, 2}
  /\ jobs[1].policy_id = None
  /\ jobs[2].policy_id = Some("p1")
  /\ response.profile.job_history.total_runs = 2

\* the entry of the policy-usage digest of a profile for a policy id
DigestOf(profile, policy_id) ==
  SelectSeq(profile.job_history.policy_usage, LAMBDA u : u.policy_id = policy_id)

\* the policy ids of the records in ids that the Policy Store does not hold
Dangling(ids) ==
  {policy_id \in ids : WithPolicy(policy_id) # {} /\ PolicyStore_get(policies, policy_id) = None}

\* a lifecycle event is stored with the policy id it names, and a profile
\* lists each id of ids that dangles once, with its runs and without name and
\* verification time
DanglingTolerated(ids) ==
  /\ request.op = "jobs_record" =>
       /\ response.status = "ok"
       /\ JobStore_get(jobs, request.job_id) # None
       /\ JobStore_get(jobs, request.job_id)[1].policy_id = request.policy_id
  /\ Profiled =>
       \A policy_id \in Dangling(ids) :
         DigestOf(response.profile, policy_id) =
           <<[policy_id |-> policy_id, policy_name |-> None,
              runs |-> Cardinality(WithPolicy(policy_id)), last_verified_at |-> None]>>

\* C29 as claimed: a job may name a policy_id the Policy Store does not hold:
\* the event is stored, and a profile lists that policy_id in its policy-usage
\* digest with a null name and a null last_verified_at.
C29_Original == DanglingTolerated({"", "p1", "ghost"})

\* C29 amended: as claimed, for a policy_id that is not the empty string.
C29_Amended == DanglingTolerated({"p1", "ghost"})

\* a profile over a store whose two jobs name a policy the Policy Store does not
\* hold
C29_Witness ==
  /\ Profiled
  /\ Cardinality(WithPolicy("ghost")) = 2
  /\ PolicyStore_get(policies, "ghost") = None
  /\ DigestOf(response.profile, "ghost") # <<>>

-----------------------------------------------------------------------------
(* score_policy_for_batch called again and again, each call on inputs of its own *)

MonoTargets == {<<>>, <<"web">>, <<"web", "batch">>}

MonoGuardrails ==
  {<<>>, <<G_cpu_le_80>>, <<G_cpu_le_80, G_mem_le_80>>, <<G_cpu_le_80, G_no_operator>>}

\* both metrics within bounds, one beyond, both beyond, and a CPU that is no number
MonoMetrics ==
  {[k \in {CPU, MEM} |-> Float(50)],
   [k \in {CPU, MEM} |-> IF k = CPU THEN Float(85) ELSE Float(50)],
   [k \in {CPU, MEM} |-> Float(85)],
   [k \in {CPU} |-> NaN]}

CallScoreAgain ==
  /\ \E tw \in MonoTargets, gs \in MonoGuardrails, h \in {0, MaxHistory},
        verified \in BOOLEAN, workload_tags \in SUBSET Tags, metrics \in MonoMetrics :
       LET record == FnRecord(tw, gs, h, verified)
       IN  /\ request' = [op |-> "score_policy_for_batch", record |-> record,
                          workload_tags |-> workload_tags, metrics |-> metrics]
           /\ response' = score_policy_for_batch(record, workload_tags, metrics)
  /\ StoresUnchanged

NextMono == CallScoreAgain

SpecMono == InitFn /\ [][NextMono]_vars

-----------------------------------------------------------------------------
(* C26 *)

\* the number of workload tags among the target workloads of a record
OverlapCount(record, workload_tags) ==
  Cardinality({t \in workload_tags :
                 \E i \in DOMAIN record.target_workloads : record.target_workloads[i] = t})

\* the number of guardrails of a record that the metrics breach
BreachedCount(record, metrics) ==
  Cardinality({i \in DOMAIN record.guardrails : Penalised(record.guardrails[i], metrics)})

\* two calls in a row on records of one history length and verification
Comparable ==
  /\ request.op = "score_policy_for_batch"
  /\ request'.op = "score_policy_for_batch"
  /\ Len(request'.record.history) = Len(request.record.history)
  /\ (request'.record.last_verified_at = None) = (request.record.last_verified_at = None)

\* C26: with history length, verification and breached guardrails held fixed,
\* a call with at least the overlap of another scores at least as high; with
\* overlap, history length and verification held fixed, a call with at least
\* the breached guardrails of another scores at most as high.
C26_Monotone ==
  [][ Comparable =>
        LET overlap == OverlapCount(request.record, request.workload_tags)
            overlap_next == OverlapCount(request'.record, request'.workload_tags)
            breached == BreachedCount(request.record, request.metrics)
            breached_next == BreachedCount(request'.record, request'.metrics)
        IN  /\ (breached_next = breached /\ overlap_next >= overlap)
               => response'.score >= response.score
            /\ (overlap_next = overlap /\ breached_next >= breached)
               => response'.score <= response.score ]_vars

\* a call with one tag of two among the targets and one guardrail of two
\* breached was scored: other calls have less and more of either
C26_Witness ==
  /\ request.op = "score_policy_for_batch"
  /\ OverlapCount(request.record, request.workload_tags) = 1
  /\ Len(request.record.guardrails) = 2
  /\ BreachedCount(request.record, request.metrics) = 1
  /\ response.score = 4 + 8 - 6

-----------------------------------------------------------------------------
(* C27 *)

\* the id of the record that the step mutates, None when the step mutates none
MutatedId ==
  IF response'.status # "ok" THEN None
  ELSE IF request'.op = "policies_create" THEN Some(response'.policy.id)
  ELSE IF request'.op \in {"policies_add_run", "update_metadata", "register_verification"}
       THEN Some(request'.policy_id)
  ELSE None

\* C27: create, add_run, update_metadata and register_verification set the
\* updated_at of the record to the time of the mutation: updated_at never
\* decreases and is never earlier than created_at; add_run, update_metadata and
\* register_verification leave created_at as it was.
C27_UpdatedAt ==
  [][ /\ \A i \in DOMAIN policies' :
           /\ policies'[i].updated_at >= policies'[i].created_at
           /\ PolicyStore_get(policies, policies'[i].id) # None =>
                policies'[i].updated_at
                  >= PolicyStore_get(policies, policies'[i].id)[1].updated_at
      /\ MutatedId # None =>
           /\ PolicyStore_get(policies', MutatedId[1]) # None
           /\ PolicyStore_get(policies', MutatedId[1])[1].updated_at = now'
           /\ request'.op # "policies_create" =>
                /\ PolicyStore_get(policies, MutatedId[1]) # None
                /\ PolicyStore_get(policies', MutatedId[1])[1].created_at
                     = PolicyStore_get(policies, MutatedId[1])[1].created_at ]_vars

\* a record created at one time has been mutated by a run, a metadata update or
\* a verification at a later time
C27_Witness ==
  /\ request.op \in {"policies_add_run", "update_metadata", "register_verification"}
  /\ response.status = "ok"
  /\ PolicyStore_get(policies, request.policy_id) # None
  /\ PolicyStore_get(policies, request.policy_id)[1].updated_at = now
  /\ PolicyStore_get(policies, request.policy_id)[1].created_at < now
  /\ now >= 2

-----------------------------------------------------------------------------
(* The catalog searched: POST /policies/search over the seeds and the policies
   that POST /policies adds *)

\* policies with names and descriptions of several words, tags in capitals,
\* embeddings of two lengths, and one without target workloads
SearchCreateInputs ==
  {[PolicyCreateRequest(Some("p3"), Some(<<Exact(3), Exact(4)>>), EmptyDict)
      EXCEPT !.name = "Low Latency", !.description = "made to order",
             !.target_workloads = <<"Web">>],
   [PolicyCreateRequest(Some("p4"), Some(<<Exact(4), Exact(3)>>), EmptyDict)
      EXCEPT !.name = "throughput", !.description = "", !.intent = "Batch",
             !.target_workloads = <<"batch", "WEB">>],
   [PolicyCreateRequest(Some("p5"), Some(<<Float(1)>>), EmptyDict)
      EXCEPT !.name = "latency", !.target_workloads = <<>>, !.guardrails = <<>>]}

\* no query, a blank one, one in capitals, one with blanks to spare, one naming
\* a guardrail, and one with a word no record has
SearchQueries ==
  {<<>>, <<" ">>, <<"Latency">>, <<" ", "low", " ", " ", "latency", " ", "web">>,
   <<"order", " ">> \o G_cpu_util_le_80, <<"zzz", " ", "web">>}

SearchInputs ==
  {PolicySearchRequest(query, limit, tags, query_embedding) :
     query \in SearchQueries,
     limit \in {-1} \cup 0..MaxLimit,
     tags \in {<<>>, <<"WEB">>, <<"batch", "gpu">>, <<"gpu">>},
     query_embedding \in {None, Some(<<>>), Some(<<Exact(3), Exact(4)>>),
                          Some(<<Exact(0), Exact(0)>>)}}

SearchCreate ==
  /\ now < MaxClock
  /\ \E req \in SearchCreateInputs :
       Handled(req, policies_create(policies, jobs, req, FreshPolicyId(Tick), Tick))

PoliciesSearch ==
  /\ now < MaxClock
  /\ \E req \in SearchInputs :
       Handled([op |-> "policies_search"] @@ req, policies_search(policies, jobs, req))

NextSearch ==
  \/ SearchCreate
  \/ PoliciesSearch

SpecSearch == Init /\ [][NextSearch]_vars

-----------------------------------------------------------------------------
(* C30 *)

\* the words of a text: its longest stretches without a blank
Runs(text) ==
  {SubSeq(text, i, j) : <<i, j>> \in
     {x \in (DOMAIN text) \X (DOMAIN text) :
        /\ x[1] <= x[2]
        /\ \A k \in x[1]..x[2] : text[k] # " "
        /\ x[1] > 1 => text[x[1] - 1] = " "
        /\ x[2] < Len(text) => text[x[2] + 1] = " "}}

\* the tokens of name, description, intent, target workloads and guardrails
RecordTokens(record) ==
  Runs(lower(Text(record.name))) \cup Runs(lower(Text(record.description)))
    \cup Runs(lower(Text(record.intent)))
    \cup UNION {Runs(lower(Text(record.target_workloads[i]))) :
                  i \in DOMAIN record.target_workloads}
    \cup UNION {Runs(lower(record.guardrails[i])) : i \in DOMAIN record.guardrails}

\* the token part of the score as the specification words it, in parts of ScoreUnit
ClaimedTokenScore(query, record) ==
  LET query_tokens == Runs(lower(query))
      size == IF Cardinality(query_tokens) > 1 THEN Cardinality(query_tokens) ELSE 1
  IN  (Cardinality(query_tokens \cap RecordTokens(record)) * ScoreUnit) \div size

\* the records a search with these tags may return
Candidates(tags) ==
  {i \in DOMAIN policies :
     tags # <<>> =>
       \E k \in DOMAIN tags, j \in DOMAIN policies[i].target_workloads :
         LowerWord(tags[k]) = LowerWord(policies[i].target_workloads[j])}

\* what C30 says of a search but for the number of results: they are distinct
\* candidates in descending order of score, none left out for one that scores
\* less, and without a query embedding the score is 0.6 of the token part
SearchedAsClaimed ==
  LET results == response.results
      found == {i \in DOMAIN policies :
                  \E k \in DOMAIN results : results[k].policy.id = policies[i].id}
  IN  /\ found \subseteq Candidates(request.tags)
      /\ Cardinality(found) = Len(results)
      /\ \A k \in DOMAIN results :
           results[k].policy = serialize_policy(PolicyStore_get(policies, results[k].policy.id)[1])
      /\ \A k, m \in DOMAIN results : k < m => results[k].score >= results[m].score
      /\ request.query_embedding = None =>
           /\ \A k \in DOMAIN results :
                results[k].score * 10 =
                  6 * ClaimedTokenScore(request.query,
                                        PolicyStore_get(policies, results[k].policy.id)[1])
           /\ \A i \in Candidates(request.tags) \ found, k \in DOMAIN results :
                6 * ClaimedTokenScore(request.query, policies[i]) <= results[k].score * 10
      /\ request.limit >= 0 =>
           Len(results) = Min(request.limit, Cardinality(Candidates(request.tags)))

\* C30: search returns, when tags is non-empty, only records whose
\* target_workloads share a tag with tags whatever the case of the letters, and
\* every record is a candidate without tags; the results are in descending
\* order of score and at most limit in number; the token part of the score is
\* |query tokens /\ record tokens| / max(|query tokens|, 1), 0 for no query.
C30_Search ==
  request.op = "policies_search" =>
    /\ SearchedAsClaimed
    /\ Len(response.results) <= request.limit

\* the same for the limits that are a number of entries
C30_SearchCounted ==
  (request.op = "policies_search" /\ request.limit >= 0) => C30_Search

-----------------------------------------------------------------------------
(* The store calls that call another method of their store, the profile behind
   its telemetry queries, and a _save() that raises *)

ThreadPolicy(th) == <<"p3", "p4", "p5", "p6">>[th]

\* the calls of a thread: PolicyStore.create, which ends in upsert, and
\* PolicyStore.search, which begins with list, for one thread in two;
\* PolicyStore.add_run and JobStore.upsert, which ends in record, for the
\* others; and for all build_workload_profile, which queries Prometheus and
\* then reads the Job Store three times
LiveCalls(th) ==
  (IF th % 2 = 1
   THEN {[op |-> "create", store |-> "policy",
          arg |-> PolicyRecord(ThreadPolicy(th), "custom", <<"web">>, <<>>, <<>>,
                               EmptyDict, <<>>, 0)],
         [op |-> "search", store |-> "policy", arg |-> <<"list">>]}
   ELSE {[op |-> "add_run", store |-> "policy", arg |-> [k \in {ThreadKey(th)} |-> Float(th)]],
         [op |-> "upsert", store |-> "job",
          arg |-> JobRun(ThreadJob(th), "web", Some("p1"), "running", 0, None, None,
                         EmptyDict, <<>>, None)]})
  \cup {[op |-> "profile", store |-> "job",
         arg |-> <<"recent", "status_counts", "policy_usage">>]}

\* mutant: create takes the lock around its call of upsert
OuterHoldsLock_create(op) == op = "create"

\* whether a method holds the lock of its store while it calls the method it
\* ends in or begins with: create, JobStore.upsert and search take no lock
OuterHoldsLock(op) == FALSE

\* create and JobStore.upsert build their record, search lower-cases its query:
\* the method is about to call upsert, record or list
Enter(th) ==
  LET me == threads[th] IN
  /\ me.pc = "idle"
  /\ me.call.op \in {"create", "upsert", "search"}
  /\ IF OuterHoldsLock(me.call.op)
     THEN /\ ~Lock_locked(locks[me.call.store])
          /\ locks' = [locks EXCEPT ![me.call.store] = th]
     ELSE UNCHANGED locks
  /\ Goto(th, "inner", me)
  /\ FilesUnchanged
  /\ UNCHANGED <<policies, jobs, now, request, response, written, JOB_STATE>>

\* build_workload_profile: await prom_query(...), the request is on its way
SendQuery(th) ==
  LET me == threads[th] IN
  /\ me.pc = "idle"
  /\ me.call.op = "profile"
  /\ Goto(th, "query", me)
  /\ FilesUnchanged
  /\ UNCHANGED <<policies, jobs, now, locks, request, response, written, JOB_STATE>>

\* Prometheus answers, or the request fails or times out and the call raises
AnswerQuery(th) ==
  LET me == threads[th] IN
  /\ me.pc = "query"
  /\ \E ok \in BOOLEAN : Goto(th, IF ok THEN "inner" ELSE "raised", me)
  /\ FilesUnchanged
  /\ UNCHANGED <<policies, jobs, now, locks, request, response, written, JOB_STATE>>

\* with self._lock of upsert, record, list, recent, status_counts and
\* policy_usage: the lock is not reentrant, whoever holds it
InnerAcquire(th) ==
  LET me == threads[th] IN
  /\ me.pc = "inner"
  /\ ~Lock_locked(locks[me.call.store])
  /\ locks' = [locks EXCEPT ![me.call.store] = th]
  /\ Goto(th, CASE me.call.op = "create" -> "upsert"
                [] me.call.op = "upsert" -> "set"
                [] OTHER -> "list",
          [me EXCEPT !.before = ReadFile(path(me.call.store))])
  /\ FilesUnchanged
  /\ UNCHANGED <<policies, jobs, now, request, response, written, JOB_STATE>>

\* upsert: record.updated_at = _utc_now(); self._policies[record.id] = record
UpsertSet(th) ==
  LET me == threads[th] IN
  /\ me.pc = "upsert"
  /\ now' = Tick
  /\ policies' = PolicyStore_upsert(policies, me.call.arg, Tick)
  /\ Goto(th, "payload", me)
  /\ FilesUnchanged
  /\ UNCHANGED <<jobs, locks, request, response, written, JOB_STATE>>

\* list, recent, status_counts, policy_usage: the values are read under the lock
ListCopy(th) ==
  LET me == threads[th] IN
  /\ me.pc = "list"
  /\ Goto(th, "unlock", me)
  /\ FilesUnchanged
  /\ UNCHANGED <<policies, jobs, now, locks, request, response, written, JOB_STATE>>

\* the with block of a read ends; the profile goes on to its next read
ReleaseRead(th) ==
  LET me == threads[th] IN
  /\ me.pc = "unlock"
  /\ locks' = [locks EXCEPT ![me.call.store] = 0]
  /\ IF Len(me.call.arg) > 1
     THEN Goto(th, "inner", [me EXCEPT !.call.arg = Tail(@)])
     ELSE Goto(th, "done", me)
  /\ FilesUnchanged
  /\ UNCHANGED <<policies, jobs, now, request, response, written, JOB_STATE>>

\* _save raises: open, json.dump or os.replace fails and the exception leaves
\* _save with the temporary file as it is
SaveRaise(th) ==
  LET me == threads[th] IN
  /\ me.pc \in {"open", "dump", "replace"}
  /\ Goto(th, "unwind", me)
  /\ FilesUnchanged
  /\ UNCHANGED <<policies, jobs, now, locks, request, response, written, JOB_STATE>>

\* the exception leaves the with block, which releases the lock, and the call
Unwind(th) ==
  LET me == threads[th] IN
  /\ me.pc = "unwind"
  /\ locks' = [locks EXCEPT ![me.call.store] = 0]
  /\ Goto(th, "raised", me)
  /\ FilesUnchanged
  /\ UNCHANGED <<policies, jobs, now, request, response, written, JOB_STATE>>

InitLive ==
  /\ policies = ThreadsPolicies
  /\ policy_file = PolicyStore_save(policies)
  /\ jobs = <<>>
  /\ job_file = <<>>
  /\ now = 0
  /\ request = NoRequest
  /\ response = NoResponse
  /\ written = <<>>
  /\ JOB_STATE = <<>>
  /\ threads \in {f \in [Threads -> UNION {{ThreadStart(c) : c \in LiveCalls(th)} : th \in Threads}] :
                    \A th \in Threads : f[th].call \in LiveCalls(th)}
  /\ locks = [policy |-> 0, job |-> 0]
  /\ tmp_files = [policy |-> <<>>, job |-> <<>>]

StepLive(th) ==
  \/ Enter(th)
  \/ SendQuery(th)
  \/ AnswerQuery(th)
  \/ InnerAcquire(th)
  \/ UpsertSet(th)
  \/ ListCopy(th)
  \/ ReleaseRead(th)
  \/ Acquire(th)
  \/ AddRunAppend(th)
  \/ AddRunMerge(th)
  \/ AddRunStamp(th)
  \/ RecordSet(th)
  \/ SavePayload(th)
  \/ SaveOpen(th)
  \/ SaveDump(th)
  \/ SaveClose(th)
  \/ SaveReplace(th)
  \/ SaveRaise(th)
  \/ Release(th)
  \/ Unwind(th)

NextLive == \E th \in Threads : StepLive(th)

\* every thread that can take a step is scheduled in the end; a request to
\* Prometheus ends with its timeout at the latest
SpecLive == InitLive /\ [][NextLive]_vars /\ \A th \in Threads : WF_vars(StepLive(th))

-----------------------------------------------------------------------------
(* C21 *)

\* the positions at which a thread holds the lock of its store
Locked == Critical \cup {"upsert", "list", "unlock", "unwind"}

\* C21: no store operation blocks for ever: a thread holds the lock of a store
\* exactly while it is inside a with block, and never while it is about to
\* enter one (create before upsert, upsert before record, search before list)
\* or while a telemetry query is on its way; a lock that is held is released,
\* also when _save raises; and every call returns or raises in the end.
C21_NoBlocking ==
  /\ [](\A th \in Threads, store \in {"policy", "job"} :
          locks[store] = th <=>
            (threads[th].call.store = store /\ threads[th].pc \in Locked))
  /\ \A store \in {"policy", "job"} : (locks[store] # 0) ~> (locks[store] = 0)
  /\ \A th \in Threads : <>(threads[th].pc \in {"done", "raised"})

\* a create whose _save raised has given the lock back, and the add_run of the
\* other thread has returned
C21_Witness ==
  /\ threads[1].call.op = "create"
  /\ threads[1].pc = "raised"
  /\ threads[2].call.op = "add_run"
  /\ threads[2].pc = "done"
  /\ Len(PolicyStore_get(policies, "p1")[1].history) = 1
  /\ locks = [policy |-> 0, job |-> 0]

-----------------------------------------------------------------------------
(* C31 *)

\* the Policy Store that a later process constructs from the file, no seed file
\* being there
Reloaded == PolicyStore_init(policy_file, <<>>, now + 1).policies

\* C31: after create or add_run has persisted a record, a Policy Store
\* constructed from the same file holds it with the same id, guardrails in the
\* same order, kpis and history length; the reloaded store holds the records of
\* the first and no other.
C31_RoundTrip ==
  (request.op \in {"policies_create", "policies_add_run"} /\ response.status = "ok") =>
    /\ [i \in DOMAIN Reloaded |-> Reloaded[i].id] = [i \in DOMAIN policies |-> policies[i].id]
    /\ \A i \in DOMAIN policies :
         LET again == PolicyStore_get(Reloaded, policies[i].id)
         IN  /\ again # None
             /\ again[1].id = policies[i].id
             /\ again[1].guardrails = policies[i].guardrails
             /\ again[1].kpis = policies[i].kpis
             /\ Len(again[1].history) = Len(policies[i].history)
    /\ PolicyStore_get(Reloaded, response.policy.id) # None

\* a run with two kpis was added to a policy of a store that also holds a
\* policy made by a request with kpis of its own
C31_Witness ==
  /\ request.op = "policies_add_run"
  /\ response.status = "ok"
  /\ Len(response.policy.history) >= 1
  /\ DOMAIN response.policy.kpis = {"latency", "cost"}
  /\ PolicyStore_get(policies, "p3") # None
  /\ PolicyStore_get(Reloaded, "p3")[1].kpis = [k \in {"cost"} |-> Float(3)]

\* ---------------------------------------------------------------------------
\* The mock scheduler (mock_scheduler.py) and the SchedulerClient it drives
\* (scheduler_service.py). The mock scheduler keeps JOB_STATE and reports each
\* lifecycle event to EdgePilot over HTTP; a call to EdgePilot is refused
\* (nothing reaches EdgePilot), lost (EdgePilot handles it, the answer times
\* out) or answered.
\* ---------------------------------------------------------------------------

MaxCalls == 4   \* requests the mock scheduler handles

LinkOutcomes == {"ok", "refused", "lost"}

\* mock_scheduler.JobRecord with its defaults
JobRecord(job_id, workload, policy_id, status, submitted_at) ==
  [job_id |-> job_id, workload |-> workload, policy_id |-> policy_id, status |-> status,
   submitted_at |-> submitted_at, started_at |-> None, finished_at |-> None,
   metrics |-> EmptyDict, notes |-> None]

JOB_STATE_get(S, job_id) ==
  IF JobIndex(S, job_id) # 0 THEN Some(S[JobIndex(S, job_id)]) ELSE None

JOB_STATE_set(S, record) ==
  IF JobIndex(S, record.job_id) # 0
  THEN [S EXCEPT ![JobIndex(S, record.job_id)] = record]
  ELSE Append(S, record)

\* the one element of a singleton set
The(S) == CHOOSE x \in S : TRUE

\* the request arrived and EdgePilot handled it: raise_for_status raises on an
\* error status, and the answer of a lost exchange never arrives
Delivered(link, handled) ==
  IF link = "lost" \/ handled.response.status = "error"
  THEN [raised |-> TRUE, response |-> NoResponse,
        policies |-> handled.policies, jobs |-> handled.jobs]
  ELSE [raised |-> FALSE, response |-> handled.response,
        policies |-> handled.policies, jobs |-> handled.jobs]

\* SchedulerClient._post: httpx.post, then raise_for_status. `handled` is what
\* EdgePilot's handler does with the request when it arrives.
_post(link, P, J, handled) ==
  IF link = "refused"
  THEN [raised |-> TRUE, response |-> NoResponse, policies |-> P, jobs |-> J]
  ELSE The({Delivered(link, h) : h \in {handled}})

SchedulerClient_assign_jobs(link, P, J, job_payload, policy_tags, record_assignments, telemetry, t) ==
  _post(link, P, J,
        scheduler_assign(P, J, ScheduleBatchRequest(job_payload, policy_tags, record_assignments),
                         telemetry, t))

\* the body of POST /jobs/run as JobRunRecordRequest parses it
JobRunRecordRequest(payload) ==
  [job_id |-> payload.job_id, workload |-> payload.workload, policy_id |-> payload.policy_id,
   status |-> payload.status, submitted_at |-> fromisoformat(payload.submitted_at),
   started_at |-> IF payload.started_at # None
                  THEN Some(fromisoformat(payload.started_at[1])) ELSE None,
   finished_at |-> IF payload.finished_at # None
                   THEN Some(fromisoformat(payload.finished_at[1])) ELSE None,
   metrics |-> payload.metrics, tags |-> payload.tags, notes |-> payload.notes]

UpdateJobPayload(job_id, workload, status, policy_id, submitted_at, started_at, finished_at, metrics, notes, t) ==
  [job_id |-> job_id, workload |-> workload, policy_id |-> policy_id, status |-> status,
   submitted_at |-> IF submitted_at = None THEN isoformat(t) ELSE submitted_at[1],
   started_at |-> started_at, finished_at |-> finished_at,
   metrics |-> metrics, tags |-> <<>>, notes |-> notes]

SchedulerClient_update_job(link, P, J, job_id, workload, status, policy_id, submitted_at, started_at, finished_at, metrics, notes, t) ==
  _post(link, P, J,
        jobs_record(P, J, JobRunRecordRequest(
          UpdateJobPayload(job_id, workload, status, policy_id, submitted_at, started_at,
                           finished_at, metrics, notes, t))))

SchedulerClient_record_policy_run(link, P, J, policy_id, kpis, workload_label, notes, t) ==
  _post(link, P, J,
        policies_add_run(P, J, policy_id,
                         [workload_label |-> workload_label, kpis |-> kpis, notes |-> notes], t))

RECURSIVE SubmitAll(_, _, _, _, _)
SubmitAll(S, submissions, policy_id, t, i) ==
  IF i > Len(submissions) THEN S
  ELSE SubmitAll(JOB_STATE_set(S, JobRecord(submissions[i].job_id, submissions[i].workload,
                                            policy_id, "scheduled", t)),
                 submissions, policy_id, t, i + 1)

MockResult(answer, S, P, J) ==
  [response |-> answer, JOB_STATE |-> S, policies |-> P, jobs |-> J]

\* submit_jobs once client.assign_jobs has returned or raised
SubmitAssigned(S, req, assignment, t) ==
  IF assignment.raised
  THEN MockResult(HTTPException(500), S, assignment.policies, assignment.jobs)
  ELSE LET recorded == SubmitAll(S, req.jobs, assignment.response.policy.id, t, 1)
       IN  MockResult([status |-> "ok",
                       recorded |-> [i \in DOMAIN req.jobs |->
                                       JOB_STATE_get(recorded, req.jobs[i].job_id)[1]]],
                      recorded, assignment.policies, assignment.jobs)

submit_jobs(S, P, J, req, link, telemetry, t) ==
  IF req.jobs = <<>> THEN MockResult(HTTPException(400), S, P, J)
  ELSE
    LET job_payload == [i \in DOMAIN req.jobs |->
                          [job_id |-> req.jobs[i].job_id, workload |-> req.jobs[i].workload,
                           tags |-> req.jobs[i].tags, hints |-> EmptyDict]]
    IN  The({SubmitAssigned(S, req, assignment, t) :
               assignment \in {SchedulerClient_assign_jobs(link, P, J, job_payload,
                                                            req.policy_tags, TRUE,
                                                            telemetry, t)}})

start_job(S, P, J, job_id, link, t) ==
  LET found == JOB_STATE_get(S, job_id)
  IN  IF found = None THEN MockResult(HTTPException(404), S, P, J)
      ELSE IF found[1].started_at # None THEN MockResult(HTTPException(409), S, P, J)
      ELSE
        LET record == [found[1] EXCEPT !.started_at = Some(t), !.status = "running"]
            started == JOB_STATE_set(S, record)
            sent == SchedulerClient_update_job(
                      link, P, J, record.job_id, record.workload, "running",
                      Some(record.policy_id), Some(isoformat(record.submitted_at)),
                      Some(isoformat(record.started_at[1])), None, EmptyDict, None, t)
        IN  IF sent.raised
            THEN MockResult(HTTPException(500), started, sent.policies, sent.jobs)
            ELSE MockResult([status |-> "ok", record |-> record], started,
                            sent.policies, sent.jobs)

finish_job(S, P, J, job_id, update, success, link, link_run, t) ==
  LET found == JOB_STATE_get(S, job_id)
  IN  IF found = None THEN MockResult(HTTPException(404), S, P, J)
      ELSE
        LET record == [found[1] EXCEPT !.finished_at = Some(t),
                                       !.status = IF success THEN "succeeded" ELSE "failed",
                                       !.metrics = update.metrics,
                                       !.notes = update.notes]
            finished == JOB_STATE_set(S, record)
            sent == SchedulerClient_update_job(
                      link, P, J, record.job_id, record.workload, record.status,
                      Some(record.policy_id), Some(isoformat(record.submitted_at)),
                      IF record.started_at # None
                      THEN Some(isoformat(record.started_at[1])) ELSE None,
                      Some(isoformat(record.finished_at[1])), update.metrics, update.notes, t)
        IN  IF sent.raised
            THEN MockResult(HTTPException(500), finished, sent.policies, sent.jobs)
            ELSE IF update.metrics = EmptyDict
            THEN MockResult([status |-> "ok", record |-> record], finished,
                            sent.policies, sent.jobs)
            ELSE
              LET run == SchedulerClient_record_policy_run(
                           link_run, sent.policies, sent.jobs, record.policy_id,
                           update.metrics, Some(record.workload), update.notes, t)
              IN  IF run.raised
                  THEN MockResult(HTTPException(500), finished, run.policies, run.jobs)
                  ELSE MockResult([status |-> "ok", record |-> record], finished,
                                  run.policies, run.jobs)

JobSubmission(job_id, workload) == [job_id |-> job_id, workload |-> workload, tags |-> <<>>]

SubmitJobsRequest(submissions) == [jobs |-> submissions, policy_tags |-> <<>>]

JobLifecycleUpdate(metrics, notes) == [metrics |-> metrics, notes |-> notes]

SubmitInputs ==
  {SubmitJobsRequest(<<>>),
   SubmitJobsRequest(<<JobSubmission("j1", "web")>>),
   SubmitJobsRequest(<<JobSubmission("j1", "web"), JobSubmission("j2", "batch")>>)}

UpdateInputs ==
  {JobLifecycleUpdate(EmptyDict, None),
   JobLifecycleUpdate([k \in {"p99_latency_ms"} |-> Float(41)], Some("fine"))}

MockHandled(req, outcome) ==
  \E result \in {outcome} :
  /\ now' = Tick
  /\ request' = req
  /\ response' = result.response
  /\ JOB_STATE' = result.JOB_STATE
  /\ policies' = result.policies
  /\ policy_file' = IF result.policies # policies THEN PolicyStore_save(result.policies)
                    ELSE policy_file
  /\ jobs' = result.jobs
  /\ job_file' = IF result.jobs # jobs THEN JobStore_save(result.jobs) ELSE job_file
  /\ written' = [k \in {result.jobs[i].job_id : i \in DOMAIN result.jobs} |->
                   JobStore_get(result.jobs, k)[1]]
  /\ UNCHANGED <<threads, locks, tmp_files>>

SubmitJobs ==
  /\ now < MaxCalls
  /\ \E req \in SubmitInputs, link \in LinkOutcomes,
        telemetry \in {Telemetry(Float(50), Float(50)), TelemetryDown} :
       MockHandled([op |-> "submit_jobs", link |-> link] @@ req,
                   submit_jobs(JOB_STATE, policies, jobs, req, link, telemetry, Tick))

StartJob ==
  /\ now < MaxCalls
  /\ \E job_id \in {"j1", "j2"}, link \in LinkOutcomes :
       MockHandled([op |-> "start_job", job_id |-> job_id, link |-> link],
                   start_job(JOB_STATE, policies, jobs, job_id, link, Tick))

FinishJob ==
  /\ now < MaxCalls
  /\ \E job_id \in {"j1", "j2"}, update \in UpdateInputs, success \in BOOLEAN,
        link \in LinkOutcomes, link_run \in LinkOutcomes :
       /\ update.metrics = EmptyDict => link_run = "ok"
       /\ MockHandled([op |-> "finish_job", job_id |-> job_id, success |-> success,
                       link |-> link, link_run |-> link_run] @@ update,
                      finish_job(JOB_STATE, policies, jobs, job_id, update, success,
                                 link, link_run, Tick))

InitMock == Init

NextMock == SubmitJobs \/ StartJob \/ FinishJob

SpecMock == InitMock /\ [][NextMock]_vars

MockOps == {"submit_jobs", "start_job", "finish_job"}

\* the jobs the last mock-scheduler request was about
RequestJobs ==
  IF request.op = "submit_jobs"
  THEN {request.jobs[i].job_id : i \in DOMAIN request.jobs}
  ELSE {request.job_id}

\* JOB_STATE's record of the job, if there is one, is mirrored in the Job Store
Mirrored(job_id) ==
  LET mine == JOB_STATE_get(JOB_STATE, job_id)
      theirs == JobStore_get(jobs, job_id)
  IN  mine # None =>
        /\ theirs # None
        /\ theirs[1].status = mine[1].status
        /\ theirs[1].started_at = mine[1].started_at
        /\ theirs[1].finished_at = mine[1].finished_at

\* C32: after each submit_jobs, start_job or finish_job call, whether it
\* returned or failed because the call to EdgePilot failed, JOB_STATE and the
\* Job Store agree on the status, started_at and finished_at of the job, and a
\* job whose start failed is not marked started, so that it can be started
\* again.
C32_Mirrored ==
  request.op \in MockOps =>
    /\ \A job_id \in RequestJobs : Mirrored(job_id)
    /\ (request.op = "start_job" /\ response = HTTPException(500)) =>
         JOB_STATE_get(JOB_STATE, request.job_id)[1].started_at = None

\* the job's status in the given JOB_STATE, "none" while it is unknown
StatusIn(S, job_id) ==
  IF JOB_STATE_get(S, job_id) = None THEN "none" ELSE JOB_STATE_get(S, job_id)[1].status

LifecycleSteps ==
  {<<"none", "scheduled">>, <<"scheduled", "running">>,
   <<"running", "succeeded">>, <<"running", "failed">>}

\* C36: in the mock scheduler a job's status in JOB_STATE follows
\* scheduled -> running -> succeeded or failed: every request leaves the
\* status of every job as it was or moves it one step along that path (so
\* finish_job moves only a running job, and a succeeded or failed job never
\* changes status again), and start_job answers 409 for a job that has
\* already started.
C36_Lifecycle ==
  [][/\ \A job_id \in {"j1", "j2"} :
          \/ StatusIn(JOB_STATE', job_id) = StatusIn(JOB_STATE, job_id)
          \/ <<StatusIn(JOB_STATE, job_id), StatusIn(JOB_STATE', job_id)>> \in LifecycleSteps
     /\ (/\ request'.op = "start_job"
         /\ JOB_STATE_get(JOB_STATE, request'.job_id) # None
         /\ JOB_STATE_get(JOB_STATE, request'.job_id)[1].started_at # None)
        => response' = HTTPException(409)]_vars

\* ---------------------------------------------------------------------------
\* The SchedulerClient lifecycle as example_flow (scheduler_service.py) and
\* run_demo_batches (demo_scheduler.py, one batch) drive it: assign the batch
\* with recording, report each job running, report each job succeeded, push
\* the KPIs. threads[1] is the driver: which one it is, the step it is at and
\* the policy id the assignment returned. An exception ends the driver.
\* ---------------------------------------------------------------------------

MaxDelay == 2   \* clock ticks between two calls of a driver

Drivers == {"example_flow", "run_demo_batches"}

batch_jobs == <<Descriptor("j1", "web"), Descriptor("j2", "batch")>>

\* the calls of each driver, in order; `job` indexes batch_jobs
FlowSteps(driver) ==
  IF driver = "example_flow"
  THEN <<[call |-> "assign_jobs", job |-> 0],
         [call |-> "running", job |-> 1], [call |-> "running", job |-> 2],
         [call |-> "succeeded", job |-> 1], [call |-> "succeeded", job |-> 2],
         [call |-> "record_policy_run", job |-> 0]>>
  ELSE <<[call |-> "assign_jobs", job |-> 0],
         [call |-> "running", job |-> 1], [call |-> "succeeded", job |-> 1],
         [call |-> "running", job |-> 2], [call |-> "succeeded", job |-> 2],
         [call |-> "record_policy_run", job |-> 0]>>

FlowAt(call) ==
  /\ threads[1].pc \in DOMAIN FlowSteps(threads[1].call)
  /\ FlowSteps(threads[1].call)[threads[1].pc].call = call

FlowJob == batch_jobs[FlowSteps(threads[1].call)[threads[1].pc].job]

FlowMetrics == [k \in {"p99_latency_ms"} |-> Float(41)]

\* one call of the driver: EdgePilot's stores as the call left them, and the
\* driver one step on, or ended by the exception
FlowCalled(req, outcome, t, policy_id) ==
  \E sent \in {outcome} :
  /\ now' = t
  /\ request' = req
  /\ response' = sent.response
  /\ policies' = sent.policies
  /\ policy_file' = IF sent.policies # policies THEN PolicyStore_save(sent.policies)
                    ELSE policy_file
  /\ jobs' = sent.jobs
  /\ job_file' = IF sent.jobs # jobs THEN JobStore_save(sent.jobs) ELSE job_file
  /\ written' = [k \in {sent.jobs[i].job_id : i \in DOMAIN sent.jobs} |->
                   JobStore_get(sent.jobs, k)[1]]
  /\ threads' = [threads EXCEPT ![1].pc = IF sent.raised THEN 0 ELSE @ + 1,
                                ![1].policy_id = policy_id]
  /\ UNCHANGED <<locks, tmp_files, JOB_STATE>>

FlowAssign ==
  /\ FlowAt("assign_jobs")
  /\ \E d \in 1..MaxDelay, link \in LinkOutcomes,
        telemetry \in {Telemetry(Float(50), Float(50)), TelemetryDown} :
       \E assignment \in {SchedulerClient_assign_jobs(link, policies, jobs, batch_jobs, <<>>,
                                                       TRUE, telemetry, now + d)} :
         FlowCalled([op |-> "assign_jobs", link |-> link], assignment, now + d,
                    IF assignment.raised THEN None
                    ELSE Some(assignment.response.policy.id))

FlowRunning ==
  /\ FlowAt("running")
  /\ \E d \in 1..MaxDelay, link \in LinkOutcomes :
       FlowCalled([op |-> "update_job", status |-> "running", job_id |-> FlowJob.job_id,
                   link |-> link],
                  SchedulerClient_update_job(link, policies, jobs, FlowJob.job_id,
                                             FlowJob.workload, "running", threads[1].policy_id,
                                             None, Some(isoformat(now + d)), None,
                                             EmptyDict, None, now + d),
                  now + d, threads[1].policy_id)

FlowSucceeded ==
  /\ FlowAt("succeeded")
  /\ \E d \in 1..MaxDelay, link \in LinkOutcomes :
       FlowCalled([op |-> "update_job", status |-> "succeeded", job_id |-> FlowJob.job_id,
                   link |-> link],
                  SchedulerClient_update_job(link, policies, jobs, FlowJob.job_id,
                                             FlowJob.workload, "succeeded", threads[1].policy_id,
                                             None, None, Some(isoformat(now + d)),
                                             FlowMetrics, None, now + d),
                  now + d, threads[1].policy_id)

FlowRecordRun ==
  /\ FlowAt("record_policy_run")
  /\ \E d \in 1..MaxDelay, link \in LinkOutcomes :
       FlowCalled([op |-> "record_policy_run", link |-> link],
                  SchedulerClient_record_policy_run(link, policies, jobs,
                                                    threads[1].policy_id[1], FlowMetrics,
                                                    Some("web+batch"), Some("flow"), now + d),
                  now + d, threads[1].policy_id)

InitFlow ==
  /\ policies = _ensure_seed_policies(<<>>, SeedPolicies, 0, 1)
  /\ policy_file = PolicyStore_save(policies)
  /\ jobs = <<>>
  /\ job_file = <<>>
  /\ now = 0
  /\ request = NoRequest
  /\ response = NoResponse
  /\ written = <<>>
  /\ JOB_STATE = <<>>
  /\ \E driver \in Drivers : threads = <<[call |-> driver, pc |-> 1, policy_id |-> None]>>
  /\ locks = [policy |-> 0, job |-> 0]
  /\ tmp_files = [policy |-> <<>>, job |-> <<>>]

NextFlow == FlowAssign \/ FlowRunning \/ FlowSucceeded \/ FlowRecordRun

SpecFlow == InitFlow /\ [][NextFlow]_vars

\* C35: through the SchedulerClient lifecycle of a job no lifecycle event
\* erases or changes a timestamp set by an earlier one: a call leaves the
\* job's record in the Job Store with the submitted_at it had, and with the
\* started_at it had once that was set.
C35_TimestampsKept ==
  [][\A job_id \in {"j1", "j2"} :
       LET before == JobStore_get(jobs, job_id)
           after == JobStore_get(jobs', job_id)
       IN  before # None =>
             /\ after # None
             /\ after[1].submitted_at = before[1].submitted_at
             /\ before[1].started_at # None => after[1].started_at = before[1].started_at]_vars

\* what _save would write for the store now: the in-memory store, serialised
InMemory(store) == IF store = "policy" THEN PolicyStore_save(policies) ELSE JobStore_save(jobs)

\* C34: when _save raises inside a mutating store operation, the in-memory
\* store is left as it was before the call: while the exception unwinds the
\* operation, its lock still held, the file is the one the operation found and
\* the in-memory store equals it, so that no later get or list shows the failed
\* mutation.
C34_FailedSaveUndone ==
  \A th \in Threads :
    threads[th].pc = "unwind" =>
      /\ ReadFile(path(threads[th].call.store)) = threads[th].before
      /\ InMemory(threads[th].call.store) = ReadFile(path(threads[th].call.store))

\* ---------------------------------------------------------------------------
\* scheduler_assign when a _save of the Job Store raises: the recording loop
\* calls JOBS.upsert once per descriptor, and each upsert sets the record in
\* memory and then saves the whole store. save_raises_at is the descriptor at
\* whose upsert _save raises, 0 for none.
\* ---------------------------------------------------------------------------

\* the recording loop of an assignment that has chosen a policy, or the answer
\* of one that has not got that far
RecordSaving(J, F, req, clean, t, save_raises_at) ==
  IF /\ clean.response.status = "ok"
     /\ req.record_assignments
     /\ save_raises_at \in DOMAIN req.jobs
  THEN [response |-> HTTPException(500), policies |-> clean.policies,
        jobs |-> RecordAssignments(J, SubSeq(req.jobs, 1, save_raises_at),
                                   clean.response.policy.id, t, 1),
        job_file |-> IF save_raises_at = 1 THEN F
                     ELSE JobStore_save(
                            RecordAssignments(J, SubSeq(req.jobs, 1, save_raises_at - 1),
                                              clean.response.policy.id, t, 1))]
  ELSE [response |-> clean.response, policies |-> clean.policies, jobs |-> clean.jobs,
        job_file |-> IF clean.jobs # J THEN JobStore_save(clean.jobs) ELSE F]

scheduler_assign_saving(P, J, F, req, telemetry, t, save_raises_at) ==
  The({RecordSaving(J, F, req, clean, t, save_raises_at) :
         clean \in {scheduler_assign(P, J, req, telemetry, t)}})

HandledSaving(req, outcome) ==
  \E result \in {outcome} :
  /\ now' = Tick
  /\ request' = req
  /\ response' = result.response
  /\ jobs' = result.jobs
  /\ job_file' = result.job_file
  /\ written' = [k \in {result.jobs[i].job_id : i \in DOMAIN result.jobs} |->
                   JobStore_get(result.jobs, k)[1]]
  /\ UNCHANGED <<policies, policy_file>>
  /\ ThreadsUnchanged

SchedulerAssignSaving ==
  /\ now < MaxClock
  /\ \E in \in AssignInputs, save_raises_at \in 0..2 :
       HandledSaving(in[1] @@ [telemetry |-> in[2], save_raises_at |-> save_raises_at],
                     scheduler_assign_saving(policies, jobs, job_file, in[1], in[2], Tick,
                                             save_raises_at))

InitAssign == Init

NextAssign == SchedulerAssignSaving \/ JobsRecord

SpecAssign == InitAssign /\ [][NextAssign]_vars

\* C37: the recording step of scheduler_assign is all-or-nothing for the
\* batch: when persisting a job's record fails, the request fails and the Job
\* Store, in memory and on disk, is as it was, with no scheduled record of the
\* batch; when the request succeeds with recording, the assignments are one
\* entry per descriptor, in batch order.
C37_AllOrNothing ==
  [][request'.op = "scheduler_assign" =>
       /\ (request'.save_raises_at # 0 /\ response' = HTTPException(500)) =>
            /\ jobs' = jobs
            /\ job_file' = job_file
       /\ (response'.status = "ok" /\ request'.record_assignments) =>
            [i \in DOMAIN response'.assignments |-> response'.assignments[i].job_id]
              = [i \in DOMAIN request'.jobs |-> request'.jobs[i].job_id]]_vars

\* ---------------------------------------------------------------------------
\* The Policy Store under its own operations and the verify endpoint together
\* ---------------------------------------------------------------------------

InitTokens == Init

NextTokens == NextStores \/ PoliciesVerify

SpecTokens == InitTokens /\ [][NextTokens]_vars

\* the verification stamp of a policy in the given store: when, and the token
StampIn(P, policy_id) ==
  <<PolicyStore_get(P, policy_id)[1].last_verified_at,
    PolicyStore_get(P, policy_id)[1].last_activation_token>>

PolicyIds(P) == {P[i].id : i \in DOMAIN P}

Stamping ==
  \/ request'.op = "register_verification" /\ response'.status = "ok"
  \/ request'.op = "policies_verify" /\ response'.status = "ok"

\* C39: a record has last_verified_at set exactly when it has
\* last_activation_token set; both are absent right after create, both are set
\* by register_verification, and no other operation (add_run, update_metadata,
\* a rejected or failed verification, a Job Store upsert) changes either.
C39_StampedTogether ==
  [][/\ \A i \in DOMAIN policies' :
          (policies'[i].last_verified_at # None) <=> (policies'[i].last_activation_token # None)
     /\ (request'.op = "policies_create" /\ response'.status = "ok") =>
          StampIn(policies', response'.policy.id) = <<None, None>>
     /\ Stamping =>
          /\ StampIn(policies', request'.policy_id)[1] = Some(now')
          /\ StampIn(policies', request'.policy_id)[2] # None
     /\ \A policy_id \in PolicyIds(policies) :
          ~(\/ request'.op = "policies_create" /\ response'.status = "ok"
               /\ response'.policy.id = policy_id
            \/ Stamping /\ request'.policy_id = policy_id) =>
            /\ policy_id \in PolicyIds(policies')
            /\ StampIn(policies', policy_id) = StampIn(policies, policy_id)]_vars

C39_Witness ==
  /\ request.op \in {"policies_add_run", "update_metadata"}
  /\ response.status = "ok"
  /\ StampIn(policies, "p1")[1] # None
  /\ StampIn(policies, "p1")[2] # None
  /\ \E i \in DOMAIN policies : policies[i].last_verified_at = None

\* ---------------------------------------------------------------------------
\* Requests to POST /policies/{id}/verify and POST /policies in flight at the
\* same time. Each request is a coroutine of the one event loop: threads[th]
\* holds its request, the statement it is at and its locals. policies_verify
\* and policies_create are `async def` without any await, so a coroutine that
\* has started keeps the loop until it returns; requests that are pending
\* together are handled in either order.
\* ---------------------------------------------------------------------------

VerifyMetricsMixed == (CPU_UTIL :> Float(50) @@ MEM :> Float(90))

NoteOf(th) == CASE th = 1 -> "note-1" [] th = 2 -> "note-2" [] OTHER -> "note-3"

\* `if req.dry_run_notes:` -- a note that is given and not the empty string
Truthy(text) == text # None /\ text[1] # ""

\* notes = list(updated.notes); notes.append(req.dry_run_notes)
NotesWith_prepend(notes, note) == <<note>> \o notes

NotesWith(notes, note) == Append(notes, note)

CoroutineCalls(th) ==
  {[op |-> "policies_verify", policy_id |-> "p1", metrics |-> metrics,
    guardrail_overrides |-> EmptyDict, dry_run_notes |-> dry_run_notes] :
     metrics \in {VerifyMetricsCool, VerifyMetricsMixed},
     dry_run_notes \in {None, Some(""), Some(NoteOf(th))}}
  \cup {[PolicyCreateRequest(Some("p1"), None, EmptyDict)
           EXCEPT !.guardrails = <<G_mem_le_80>>]}

CoroutineStart(call) ==
  [call |-> call, pc |-> "pending", evaluated |-> None, token |-> None, notes |-> <<>>,
   response |-> NoResponse]

\* the event loop runs one coroutine at a time: every other one is still
\* pending or has returned
LoopFree_threads(th) == TRUE

LoopFree(th) == \A other \in Threads \ {th} : threads[other].pc \in {"pending", "done"}

Resume(th, pc, locals) ==
  /\ threads' = [threads EXCEPT ![th] = [locals EXCEPT !.pc = pc]]
  /\ IF pc = "done"
     THEN request' = locals.call /\ response' = locals.response
     ELSE UNCHANGED <<request, response>>
  /\ UNCHANGED <<jobs, job_file, written, locks, tmp_files, JOB_STATE>>

\* record = POLICIES.get(...); the 404 and 400 checks; evaluate_guardrails; the
\* rejected answer
VerifyEvaluate(th) ==
  LET me == threads[th]
      record == PolicyStore_get(policies, me.call.policy_id)
  IN  /\ me.pc = "pending"
      /\ me.call.op = "policies_verify"
      /\ LoopFree(th)
      /\ IF record = None
         THEN Resume(th, "done", [me EXCEPT !.response = HTTPException(404)])
         ELSE IF me.call.metrics = EmptyDict
         THEN Resume(th, "done", [me EXCEPT !.response = HTTPException(400)])
         ELSE LET violations == evaluate_guardrails(record[1], me.call.metrics,
                                                    me.call.guardrail_overrides)
              IN  IF violations # <<>>
                  THEN Resume(th, "done",
                              [me EXCEPT !.response = [status |-> "rejected",
                                                       violations |-> violations,
                                                       metrics |-> me.call.metrics]])
                  ELSE Resume(th, "register",
                              [me EXCEPT !.evaluated = Some(record[1].guardrails)])
      /\ UNCHANGED <<policies, policy_file, now>>

\* token = ...; updated = POLICIES.register_verification(policy_id, token)
VerifyRegister(th) ==
  LET me == threads[th]
      registered == PolicyStore_register_verification(policies, me.call.policy_id, Tick, Tick)
  IN  /\ me.pc = "register"
      /\ LoopFree(th)
      /\ now' = Tick
      /\ policies' = registered.store
      /\ policy_file' = IF registered.raised THEN policy_file
                        ELSE PolicyStore_save(registered.store)
      /\ IF registered.raised
         THEN Resume(th, "done", [me EXCEPT !.response = HTTPException(500)])
         ELSE Resume(th, IF Truthy(me.call.dry_run_notes) THEN "read_notes" ELSE "respond",
                     [me EXCEPT !.token = Some(Tick)])

\* notes = list(updated.notes); notes.append(req.dry_run_notes)
VerifyReadNotes(th) ==
  LET me == threads[th]
  IN  /\ me.pc = "read_notes"
      /\ LoopFree(th)
      /\ Resume(th, "update_metadata",
                [me EXCEPT !.notes = NotesWith(
                   PolicyStore_get(policies, me.call.policy_id)[1].notes,
                   me.call.dry_run_notes[1])])
      /\ UNCHANGED <<policies, policy_file, now>>

\* updated = POLICIES.update_metadata(policy_id, notes=notes)
VerifyUpdateMetadata(th) ==
  LET me == threads[th]
      updated == PolicyStore_update_metadata(policies, me.call.policy_id, None, None,
                                             Some(me.notes), Tick)
  IN  /\ me.pc = "update_metadata"
      /\ LoopFree(th)
      /\ now' = Tick
      /\ policies' = updated.store
      /\ policy_file' = IF updated.raised THEN policy_file ELSE PolicyStore_save(updated.store)
      /\ IF updated.raised
         THEN Resume(th, "done", [me EXCEPT !.response = HTTPException(500)])
         ELSE Resume(th, "respond", me)

\* return {"status": "ok", "activation_token": token, "policy": serialize_policy(updated)}
VerifyRespond(th) ==
  LET me == threads[th]
  IN  /\ me.pc = "respond"
      /\ LoopFree(th)
      /\ Resume(th, "done",
                [me EXCEPT !.response =
                   [status |-> "ok", activation_token |-> me.token[1],
                    policy |-> serialize_policy(
                                 PolicyStore_get(policies, me.call.policy_id)[1])]])
      /\ UNCHANGED <<policies, policy_file, now>>

\* policies_create, start to end
CreateHandled(th) ==
  LET me == threads[th]
      result == policies_create(policies, jobs, me.call, FreshPolicyId(Tick), Tick)
  IN  /\ me.pc = "pending"
      /\ me.call.op = "policies_create"
      /\ LoopFree(th)
      /\ now' = Tick
      /\ policies' = result.policies
      /\ policy_file' = PolicyStore_save(result.policies)
      /\ Resume(th, "done", [me EXCEPT !.response = result.response])

InitVerify ==
  /\ policies = _ensure_seed_policies(<<>>, SeedPolicies, 0, 1)
  /\ policy_file = PolicyStore_save(policies)
  /\ jobs = <<>>
  /\ job_file = <<>>
  /\ now = 0
  /\ request = NoRequest
  /\ response = NoResponse
  /\ written = <<>>
  /\ JOB_STATE = <<>>
  /\ threads \in {f \in [Threads -> UNION {{CoroutineStart(c) : c \in CoroutineCalls(th)} :
                                            th \in Threads}] :
                    \A th \in Threads : f[th].call \in CoroutineCalls(th)}
  /\ locks = [policy |-> 0, job |-> 0]
  /\ tmp_files = [policy |-> <<>>, job |-> <<>>]

NextVerify ==
  \E th \in Threads :
    \/ VerifyEvaluate(th)
    \/ VerifyRegister(th)
    \/ VerifyReadNotes(th)
    \/ VerifyUpdateMetadata(th)
    \/ VerifyRespond(th)
    \/ CreateHandled(th)

SpecVerify == InitVerify /\ [][NextVerify]_vars

Noted == {th \in Threads : /\ threads[th].call.op = "policies_verify"
                           /\ threads[th].pc = "done"
                           /\ threads[th].response.status = "ok"
                           /\ Truthy(threads[th].call.dry_run_notes)}

NotesOf(P, policy_id) == PolicyStore_get(P, policy_id)[1].notes

====
